---- MODULE Spec2Model ----
(***************************************************************************)
(* Model of the report-to-deck orchestrator (src/mcp_lab/orchestrator.py)  *)
(* and of the deck renderer tool (src/mcp/tools/slides.py).                *)
(*                                                                         *)
(* Python values are represented as follows.                               *)
(*   - None and the empty string are both falsy; a string-valued field     *)
(*     that is None or "" is the string "".                                *)
(*   - presentation ids and slide ids are naturals >= 1; 0 is None.        *)
(*   - a url is the tuple <<"edit", id>> (the id embedded in the fixed     *)
(*     prefix/suffix); <<>> is None.                                       *)
(*   - an optional dict is a sequence of length 0 (absent) or 1.           *)
(* The section fields subtitle, bullets and script are carried from the    *)
(* summarizer answer to the normalized sections; the code tests none of    *)
(* them afterwards, so slide_params is modelled without them.              *)
(***************************************************************************)
EXTENDS Integers, Sequences, FiniteSets, TLC

\* ---------------------------------------------------------------- bounds
MaxSections == 2
MaxRuns == 2
MaxClock == 1
MaxItems == 2
MaxDirect == 3
MaxProcs == 2
MaxLines == 3
MaxAttempts == 4
MaxArray == 2
MaxQueued == 3
MaxImageCalls == 3

\* ------------------------------------------------------ program constants
MaxSlides == 10
MinSlides == 1
MaxBullets == 5
MaxScriptChars == 700

NoId == 0
NoUrl == <<>>
NoSlide == <<>>

Min(a, b) == IF a <= b THEN a ELSE b
Max(a, b) == IF a >= b THEN a ELSE b

\* Python's `x or y` on strings
OrStr(x, y) == IF x # "" THEN x ELSE y
\* Python's `x or y` on ids
OrId(x, y) == IF x # NoId THEN x ELSE y
\* Python's `x or y` on urls
OrUrl(x, y) == IF x # NoUrl THEN x ELSE y
\* Python's `x or y` on slide ids
OrSlide(x, y) == IF x # NoSlide THEN x ELSE y

\* ------------------------------------------------------------ slides.py

\* f"https://docs.google.com/presentation/d/{pres_id}/edit"
UrlOf(pres_id) == <<"edit", pres_id>>

\* _gen_id("main_slide"): a fresh object id; n is the backend's id counter
GenId(prefix, n) == <<prefix, n>>

ZeroCalls == [cred |-> 0, pres |-> 0, upload |-> 0, slide |-> 0]

NoRes == [ok |-> FALSE, presentation_id |-> NoId, slide_id |-> NoSlide,
          url |-> NoUrl, reused_existing |-> FALSE]

NoStages == [pres |-> FALSE, image |-> FALSE, slide |-> FALSE]

\* What the remote backends do during one slides.create call.
\*   creds  : _load_credentials          "ok" | "fail"
\*   create : create_presentation        "ok" | "fail"
\*   delete : delete_default_slide       "ok" | "http" (HttpError) | "other"
\*   image  : upload / drive url helper  "ok" | "fail"
\*   slide  : create_main_slide_with_content "ok" | "fail"
BackendOk == [creds |-> "ok", create |-> "ok", delete |-> "ok", image |-> "ok", slide |-> "ok"]

Backends ==
    { BackendOk,
      [BackendOk EXCEPT !.creds = "fail"],
      [BackendOk EXCEPT !.create = "fail"],
      [BackendOk EXCEPT !.delete = "http"],
      [BackendOk EXCEPT !.delete = "other"],
      [BackendOk EXCEPT !.image = "fail"],
      [BackendOk EXCEPT !.slide = "fail"] }

\* _choose_image: number of image sources supplied
ImageCount(p) ==
    (IF p.image_local_path # "" THEN 1 ELSE 0)
  + (IF p.image_url # "" THEN 1 ELSE 0)
  + (IF p.image_drive_file_id # "" THEN 1 ELSE 0)

\* _choose_image: "none" | "local" | "url" | "drive_file_id" | "error"
\* ("error" is the ValueError raised for more than one source)
ChooseImage(p) ==
    IF ImageCount(p) = 0 THEN "none"
    ELSE IF ImageCount(p) > 1 THEN "error"
    ELSE IF p.image_drive_file_id # "" THEN "drive_file_id"
    ELSE IF p.image_url # "" THEN "url"
    ELSE "local"

\* Step 4 of slides_create_tool: does image resolution complete?
\*   local         -> _backoff(upload_image_to_drive(...)), a backend call
\*   url           -> _normalize_maybe_drive swallows every exception
\*   drive_file_id -> _drive_public_download_url may raise
ImageResolves(p, b) ==
    CASE ChooseImage(p) = "none" -> TRUE
      [] ChooseImage(p) = "error" -> FALSE
      [] ChooseImage(p) = "local" -> b.image = "ok"
      [] ChooseImage(p) = "url" -> TRUE
      [] ChooseImage(p) = "drive_file_id" -> b.image = "ok"

UploadCalls(p) == IF ChooseImage(p) = "local" THEN 1 ELSE 0

\* Step 1 of slides_create_tool: the idempotency lookup
IdemHitNever(p, store) == FALSE

IdemHit(p, store) ==
    p.client_request_id # "" /\ p.client_request_id \in DOMAIN store

\* Step 6 of slides_create_tool: persist the idempotency mapping
IdemRecord(p, store, ref) ==
    IF p.client_request_id # ""
    THEN [k \in DOMAIN store \cup {p.client_request_id} |->
            IF k = p.client_request_id THEN ref ELSE store[k]]
    ELSE store

\* The outcome of a call that raised after `c` backend calls, having completed
\* the stages `st`: the store is written at step 6 only, so it is left as found.
ToolRaiseRecorded(p, store, n, c, st) ==
    [res |-> NoRes,
     idem |-> IF st.pres
              THEN IdemRecord(p, store, [presentation_id |-> n - 1, slide_id |-> NoSlide,
                                         url |-> UrlOf(n - 1)])
              ELSE store,
     nid |-> n, calls |-> c, stages |-> st]

ToolRaise(p, store, n, c, st) ==
    [res |-> NoRes, idem |-> store, nid |-> n, calls |-> c, stages |-> st]

\* slides_create_tool(params): the whole handler.  `store` is the content of
\* the idempotency file, n the next id the backend hands out.
slides_create_tool(p, b, store, n) ==
    IF IdemHit(p, store)
    THEN [res |-> [ok |-> TRUE,
                   presentation_id |-> store[p.client_request_id].presentation_id,
                   slide_id |-> store[p.client_request_id].slide_id,
                   url |-> store[p.client_request_id].url,
                   reused_existing |-> TRUE],
          idem |-> store, nid |-> n,
          calls |-> ZeroCalls, stages |-> NoStages]
    ELSE IF b.creds # "ok"
    THEN ToolRaise(p, store, n, [ZeroCalls EXCEPT !.cred = 1], NoStages)
    ELSE IF b.create # "ok"
    THEN ToolRaise(p, store, n, [ZeroCalls EXCEPT !.cred = 1, !.pres = 1], NoStages)
    ELSE IF b.delete = "other"
    THEN ToolRaise(p, store, n + 1, [ZeroCalls EXCEPT !.cred = 1, !.pres = 1],
                   [NoStages EXCEPT !.pres = TRUE])
    ELSE IF ~ImageResolves(p, b)
    THEN ToolRaise(p, store, n + 1,
                   [ZeroCalls EXCEPT !.cred = 1, !.pres = 1, !.upload = UploadCalls(p)],
                   [NoStages EXCEPT !.pres = TRUE])
    ELSE IF b.slide # "ok"
    THEN ToolRaise(p, store, n + 1,
                   [cred |-> 1, pres |-> 1, upload |-> UploadCalls(p), slide |-> 1],
                   [pres |-> TRUE, image |-> TRUE, slide |-> FALSE])
    ELSE [res |-> [ok |-> TRUE, presentation_id |-> n,
                   slide_id |-> GenId("main_slide", n),
                   url |-> UrlOf(n), reused_existing |-> FALSE],
          idem |-> IdemRecord(p, store,
                     [presentation_id |-> n, slide_id |-> GenId("main_slide", n),
                      url |-> UrlOf(n)]),
          nid |-> n + 1,
          calls |-> [cred |-> 1, pres |-> 1, upload |-> UploadCalls(p), slide |-> 1],
          stages |-> [pres |-> TRUE, image |-> TRUE, slide |-> TRUE]]

\* ------------------------------------------------- src/common/cache.py
\* get(namespace, key, ttl_secs): a value only if now - created_at <= ttl_secs.
\* The result is an optional: <<>> or <<value>>.
CacheGet(c, k, ttl, t) ==
    IF k \in DOMAIN c /\ t - c[k].created_at <= ttl THEN <<c[k].value>> ELSE <<>>

\* set(namespace, key, value)
CacheSet(c, k, v, t) ==
    [x \in DOMAIN c \cup {k} |-> IF x = k THEN [value |-> v, created_at |-> t] ELSE c[x]]

\* llm_key(report_text, max_bullets, max_script_chars, model): a hash of its inputs
llm_key(report, bullets, chars, model) == <<report, bullets, chars, model>>

\* imagen_key(prompt, aspect, size, model, share_public): a hash of its inputs
imagen_key(prompt, aspect, size, model, share) == <<prompt, aspect, size, model, share>>

\* ------------------------------------------------------ orchestrator.py

\* the inputs of the model
ClientIds == {"", "req-123"}
Reports == {"A"}
SlideCounts == (0 .. MaxSections) \cup {MaxSlides + 1}
TTLs == {0}
LlmModel == "models/gemini-2.0-flash-001"
ImagenModel == "imagegeneration@006"
ImagenSize == "1280x720"

\* The sections a summarizer answer can carry.
SectionPool ==
    { [title |-> "Acme", subtitle |-> "Q3", bullets |-> <<"b1", "b2">>,
       script |-> "talk", image_prompt |-> "dashboard"],
      [title |-> "", subtitle |-> "", bullets |-> <<>>,
       script |-> "", image_prompt |-> ""] }

SeqsUpTo(S, n) == UNION { [1 .. k -> S] : k \in 0 .. n }

\* The dict returned by llm.summarize: either it has a list under "sections"
\* or it is the legacy single-section form with top-level fields.
SummarizerOutputs ==
    { [has_list |-> TRUE, sections |-> ss, title |-> "", subtitle |-> "",
       bullets |-> <<>>, script |-> "", image_prompt |-> ""] :
        ss \in SeqsUpTo(SectionPool, MaxSections) }
    \cup
    { [has_list |-> FALSE, sections |-> <<>>, title |-> sec.title,
       subtitle |-> sec.subtitle, bullets |-> sec.bullets, script |-> sec.script,
       image_prompt |-> sec.image_prompt] : sec \in SectionPool }

\* The dict returned by image.generate (imagen.py: local_path always, the
\* drive id and url only when the file was uploaded).
ImageResults ==
    { [url |-> "", drive_file_id |-> "", local_path |-> "out/images/imagen.png"],
      [url |-> "", drive_file_id |-> "file-1", local_path |-> "out/images/imagen.png"],
      [url |-> "https://drive/uc?id=file-1", drive_file_id |-> "file-1",
       local_path |-> "out/images/imagen.png"] }

NoImage == [image_url |-> "", image_drive_file_id |-> "", image_local_path |-> ""]

\* max(1, min(10, slide_count))
Clamp(slide_count) == Max(MinSlides, Min(MaxSlides, slide_count))

\* the params of the llm.summarize call (lines 50-56)
LlmParams(report, slide_count) ==
    [report_text |-> report, max_bullets |-> MaxBullets,
     max_script_chars |-> MaxScriptChars, max_sections |-> Clamp(slide_count)]

\* llm_cache_key = llm_key(...) + f":msec={max_sections_hint}"; before it two
\* variants: the key without the hint, and the key with the unclamped slide_count
LlmCacheKeyNoHint(report, model, slide_count) ==
    <<llm_key(report, MaxBullets, MaxScriptChars, model), 0>>

LlmCacheKeyRaw(report, model, slide_count) ==
    <<llm_key(report, MaxBullets, MaxScriptChars, model), slide_count>>

LlmCacheKey(report, model, slide_count) ==
    <<llm_key(report, MaxBullets, MaxScriptChars, model), Clamp(slide_count)>>

\* Normalize to sections[] (lines 76-85); before it, a variant that keeps
\* whatever is under "sections" and so plans nothing for the legacy form
NormalizeListOnly(sv) == sv.sections

Normalize(sv) ==
    IF sv.has_list THEN sv.sections
    ELSE << [title |-> OrStr(sv.title, "Untitled"), subtitle |-> sv.subtitle,
             bullets |-> sv.bullets, script |-> sv.script,
             image_prompt |-> sv.image_prompt] >>

\* actual = min(desired, len(sections))
ActualAll(slide_count, sections) == Len(sections)

Actual(slide_count, sections) == Min(Clamp(slide_count), Len(sections))

\* per_slide_id = f"{req_id}#s{idx}"; before it a variant without the index
PerSlideIdBase(req_id, i) == req_id

PerSlideId(req_id, i) == req_id \o "#s" \o ToString(i)

\* uuid.uuid4(): the n-th fresh identifier
Uuid(n) == "uuid-" \o ToString(n)

\* the section enumerate(sections[:actual], start=1) yields at position i
SectionAtReversed(sections, i) == sections[Len(sections) + 1 - i]

SectionAt(sections, i) == sections[i]

\* the image field put into slide_params (lines 179-184)
\* "url" | "drive" | "local" | "none"
ImageMode(im) ==
    IF im.image_url # "" THEN "url"
    ELSE IF im.image_drive_file_id # "" THEN "drive"
    ELSE IF im.image_local_path # "" THEN "local"
    ELSE "none"

\* slide_params (lines 170-187)
SlideParams(req_id, i, sec, im, created_pres_id) ==
    [client_request_id |-> PerSlideId(req_id, i),
     title |-> OrStr(sec.title, "Untitled"),
     image_url |-> IF ImageMode(im) = "url" THEN im.image_url ELSE "",
     image_drive_file_id |-> IF ImageMode(im) = "drive" THEN im.image_drive_file_id ELSE "",
     image_local_path |-> IF ImageMode(im) = "local" THEN im.image_local_path ELSE "",
     presentation_id |-> created_pres_id]

\* exceptions raised by MCPClient.call (rpc_client.py lines 83-86)
NoErr == [type |-> "", msg |-> ""]
ToolError(method) == [type |-> "ToolError", msg |-> "-32000 " \o method]
TimeoutError(method) == [type |-> "TimeoutError",
                         msg |-> "Timed out waiting for response to " \o method]

NullResult == [presentation_id |-> NoId, url |-> NoUrl, created_slides |-> 0,
               first_slide_id |-> NoSlide]

NoCreated == [presentation_id |-> NoId, url |-> NoUrl, first_slide_id |-> NoSlide]


\* _stable_request_id(report_text) = "req-" + sha256(report_text).hexdigest()[:16]
StableRequestId(text) == "req-" \o "sha16(" \o text \o ")"

\* the record orchestrate_many appends for one item (lines 236-257)
BatchRecordNoCatch(name, req_id, status, res, e) ==
    [name |-> name, request_id |-> req_id,
     presentation_id |-> res.presentation_id, url |-> res.url,
     created_slides |-> res.created_slides, ok |-> TRUE, error |-> ""]

BatchRecord(name, req_id, status, res, e) ==
    IF status = "done"
    THEN [name |-> name, request_id |-> req_id,
          presentation_id |-> res.presentation_id, url |-> res.url,
          created_slides |-> res.created_slides, ok |-> TRUE, error |-> ""]
    ELSE [name |-> name, request_id |-> req_id,
          presentation_id |-> NoId, url |-> NoUrl,
          created_slides |-> 0, ok |-> FALSE, error |-> e.msg]

\* ------------------------------------------------------------------ state
VARIABLES
    idem,       \* out/state/idempotency.json: client_request_id -> (pres, slide, url)
    llmCache,   \* cache namespace "llm_summarize"
    imgCache,   \* cache namespace "imagen"
    now,        \* the clock the cache reads
    nextId,     \* next fresh id the Slides backend hands out
    nextUuid,   \* next uuid4
    nruns,      \* orchestrate calls started so far
    prev,       \* what the previous orchestrate call was given and returned
    pc,         \* position of the running orchestrate call
    run,        \* its arguments (req_id already derived)
    s,          \* the summarizer result, once available
    idx,        \* loop index over sections[:actual]
    img,        \* image_url / image_drive_file_id / image_local_path of this iteration
    created,    \* created_pres_id, deck_url, first_slide_id
    log,        \* the tool calls issued by this orchestrate call, in order
    calls,      \* backend calls made by slides.create during this orchestrate call
    result,     \* the dict orchestrate returns
    err,        \* the exception orchestrate raises
    batch,      \* orchestrate_many: items, results so far
    ndirect,    \* slides.create calls made directly (not through orchestrate)
    workers,    \* server processes running slides.create over the same idempotency file
    srv,        \* one server process: its stdin, its stdout and where serve_stdio stands
    bk,         \* one call of the backoff primitive (_backoff / _backoff_retry)
    llm,        \* one call of llm.summarize: where _retry_json_validate stands
    dq,         \* one call of data.query: where data_query_tool stands
    hist,       \* history: how the previous orchestrate call ended (sections, failing slide)
    cli,        \* one call of MCPClient.call: the reader's queue and where the loop stands
    ig          \* image.generate: the files under out_dir and the paths returned

vars == <<idem, llmCache, imgCache, now, nextId, nextUuid, nruns, prev,
          pc, run, s, idx, img, created, log, calls, result, err, batch, ndirect,
          workers, srv, bk, llm, dq, hist, cli, ig>>

EmptyMap == [k \in {} |-> 0]

NoRun == [req_id |-> "", report |-> "", slide_count |-> 0, use_cache |-> FALSE, ttl |-> 0,
          entries_fresh |-> FALSE]

NoPrev == [valid |-> FALSE, run |-> NoRun, status |-> "", result |-> NullResult]

NoBatch == [pc |-> "none", items |-> <<>>, results |-> <<>>, slide_count |-> 0]

\* one entry of the call log
LogEntry(method, req_id, i, p, out, r) ==
    [method |-> method, req_id |-> req_id, idx |-> i, params |-> p, out |-> out,
     res |-> r.res, stages |-> r.stages, calls |-> r.calls]

NoParams == [client_request_id |-> "", title |-> "", image_url |-> "",
             image_drive_file_id |-> "", image_local_path |-> "",
             presentation_id |-> NoId]

NoTool == [res |-> NoRes, stages |-> NoStages, calls |-> ZeroCalls]

\* ------------------------------------------------------------ server.py

\* JSON values: null, numbers, strings and arrays, tagged by their type
Null == <<"null">>
JNum(n) == <<"num", n>>
JStr(x) == <<"str", x>>
JArr(x) == <<"arr", x>>

\* Python truth of a JSON value (`not method`)
Truthy(v) ==
    CASE v[1] = "null" -> FALSE
      [] v[1] = "num" -> v[2] # 0
      [] v[1] = "str" -> v[2] # ""
      [] v[1] = "arr" -> v[2] # <<>>

\* a list cannot be looked up in a dict: `method not in TOOLS` raises TypeError
Hashable(v) == v[1] # "arr"

\* TOOLS after the imports of lines 20-32
Registry == {"llm.summarize", "image.generate", "slides.create", "data.query"}

\* TOOLS is left empty when an import fails (lines 33-35)
Registries == {Registry, {}}

\* `method not in TOOLS` for a hashable method
InRegistry(method, tools) == method[1] = "str" /\ method[2] \in tools

\* a JSON object read as a request: the members the dispatcher looks at
NoReq == [has_id |-> FALSE, id |-> Null, has_method |-> FALSE, method |-> Null]

RequestIds == {Null, JNum(7), JStr("a")}

RequestMethods == {Null, JStr(""), JStr("nope"), JStr("llm.summarize"), JArr(<<"x">>)}

Requests ==
    { [has_id |-> TRUE, id |-> i, has_method |-> TRUE, method |-> m] :
         i \in RequestIds, m \in RequestMethods }
    \cup { [NoReq EXCEPT !.has_method = TRUE, !.method = m] : m \in RequestMethods }
    \cup { [NoReq EXCEPT !.has_id = TRUE, !.id = i] : i \in RequestIds }

\* the lines a client can write:
\*   "empty"   the bare newline          "space"   blanks and a newline
\*   "garbage" text that is not JSON     "scalar"  JSON that is not an object
\*   "object"  a JSON object, req its members
Lines ==
    { [kind |-> k, req |-> NoReq] : k \in {"empty", "space", "garbage", "scalar"} }
    \cup { [kind |-> "object", req |-> r] : r \in Requests }

NoLine == [kind |-> "empty", req |-> NoReq]

\* line.strip() (line 86), before it, for comparison, the line left as read
StripNothing(line) == line

Strip(line) == IF line.kind = "space" THEN [line EXCEPT !.kind = "empty"] ELSE line

\* json.loads(line) (line 91): "decode_error" is JSONDecodeError, which text
\* that is not JSON raises, the empty and the blank text included
JsonLoads(line) ==
    IF line.kind \in {"garbage", "empty", "space"} THEN [ok |-> FALSE, kind |-> "decode_error", req |-> NoReq]
    ELSE [ok |-> TRUE, kind |-> line.kind, req |-> line.req]

\* req.get("id"), req.get("method")
GetId(req) == IF req.has_id THEN req.id ELSE Null
GetMethod(req) == IF req.has_method THEN req.method ELSE Null

\* _error(id_, code, message)
ErrorResponse(id_, code, message) ==
    [members |-> {"jsonrpc", "id", "error"}, id |-> id_,
     error |-> [code |-> code, message |-> message], result |-> Null]

\* _success(id_, result), before it a variant that also sets an error member
SuccessWithError(id_, r) ==
    [members |-> {"jsonrpc", "id", "result", "error"}, id |-> id_,
     error |-> [code |-> 0, message |-> ""], result |-> r]

SuccessResponse(id_, r) ==
    [members |-> {"jsonrpc", "id", "result"}, id |-> id_,
     error |-> [code |-> 0, message |-> ""], result |-> r]

\* what a tool handler does with the params: returns a result or raises
ToolOutcomes ==
    { [raised |-> FALSE, type |-> "", msg |-> "", result |-> JStr("r")],
      [raised |-> TRUE, type |-> "ValueError", msg |-> "bad params", result |-> Null],
      [raised |-> TRUE, type |-> "RuntimeError", msg |-> "", result |-> Null] }

NoOutcome == [raised |-> FALSE, type |-> "", msg |-> "", result |-> Null]

\* lines 59-62: the answer to a raising tool, before it a variant without the type
ToolFailureBare(id_, e) == ErrorResponse(id_, -32000, e.msg)

ToolFailure(id_, e) == ErrorResponse(id_, -32000, e.type \o ": " \o e.msg)

\* f"{method}" for a JSON value
Render(v) ==
    CASE v[1] = "null" -> "None"
      [] v[1] = "num" -> ToString(v[2])
      [] v[1] = "str" -> v[2]
      [] v[1] = "arr" -> "[...]"

\* line 53
MethodNotFound(id_, method) ==
    ErrorResponse(id_, -32601, "Method not found: " \o Render(method))

\* _handle_request(req) for what json.loads returned; tools is TOOLS and outcome
\* what the tool does if it is called.  raised: an exception leaves the function
\* (a value without .get at line 48, an unhashable method at line 52).
HandleRequest(parsed, tools, outcome) ==
    IF parsed.kind # "object"
    THEN [raised |-> TRUE, invoked |-> FALSE, resp |-> ErrorResponse(Null, 0, "")]
    ELSE IF ~Truthy(GetMethod(parsed.req))
    THEN [raised |-> FALSE, invoked |-> FALSE,
          resp |-> MethodNotFound(GetId(parsed.req), GetMethod(parsed.req))]
    ELSE IF ~Hashable(GetMethod(parsed.req))
    THEN [raised |-> TRUE, invoked |-> FALSE, resp |-> ErrorResponse(Null, 0, "")]
    ELSE IF ~InRegistry(GetMethod(parsed.req), tools)
    THEN [raised |-> FALSE, invoked |-> FALSE,
          resp |-> MethodNotFound(GetId(parsed.req), GetMethod(parsed.req))]
    ELSE IF outcome.raised
    THEN [raised |-> FALSE, invoked |-> TRUE, resp |-> ToolFailure(GetId(parsed.req), outcome)]
    ELSE [raised |-> FALSE, invoked |-> TRUE,
          resp |-> SuccessResponse(GetId(parsed.req), outcome.result)]

\* sys.stdout.write(json.dumps(resp) + "\n"); flush (lines 99-100), before it a
\* variant that puts the line in front of what was written
WriteFirst(out, resp) == <<resp>> \o out

Write(out, resp) == Append(out, resp)

\* readline() returns '' (line 82): nothing buffered and the client closed the
\* stream; before it a variant that never sees the end
AtEOFNever(pipe, closed) == FALSE

AtEOF(pipe, closed) == pipe = <<>> /\ closed

\* a server process before `python -m src.mcp.server` is started
\*   pipe: lines written to its stdin and not read yet   rd: lines read so far
\*   out: lines written to its stdout                    calls: handler invocations
\*   code: exit status (-1 while it has none)
NoServer == [pc |-> "off", tools |-> {}, pipe |-> <<>>, closed |-> FALSE, nsent |-> 0,
             cur |-> NoLine, rd |-> <<>>, eof |-> FALSE, out |-> <<>>, calls |-> <<>>,
             code |-> -1]

\* a server process that has not been handed a slides.create request
NoWorker == [pc |-> "idle", p |-> NoParams, cache |-> EmptyMap, res |-> NoRes]

Procs == 1 .. MaxProcs

NoWorkers == [w \in Procs |-> NoWorker]

\* ------------------------------------- _backoff / _backoff_retry (data)

\* slides.py:32 and imagen.py:26: attempts=4, base=0.6 (delays are counted in
\* tenths of a second, so 0.6 s is 6)
DefaultAttempts == 4
DefaultBase == 6

\* the two copies of the primitive
Variants == {"slides", "imagen"}

\* values of `attempts` and `base` a caller may pass
AttemptsValues == 0 .. MaxAttempts
BaseValues == {DefaultBase, 10}

\* the status tuple of _retryable_http
RetryStatuses == {429, 500, 502, 503, 504}

\* What the callable can raise, by what the classifier reads of it: whether it
\* is a googleapiclient HttpError, and the status of its `resp` (0: no resp).
Errors ==
    [http : {TRUE}, status : RetryStatuses \cup {400, 404, 501}]
  \cup [http : {FALSE}, status : {0, 503}]

NoError == [http |-> FALSE, status |-> -1]

\* what the callable can return
Values == {"v1", "v2"}

\* _retryable_http(e): slides.py:26-30 asks for an HttpError first, imagen.py:22-24
\* reads e.resp.status of any exception
RetryableWith501(variant, e) ==
    (variant = "slides" => e.http) /\ e.status \in RetryStatuses \cup {501}

retryable_http(variant, e) ==
    IF variant = "slides"
    THEN e.http /\ e.status \in RetryStatuses
    ELSE e.status \in RetryStatuses

RECURSIVE Pow2(_)
Pow2(i) == IF i = 0 THEN 1 ELSE 2 * Pow2(i - 1)

\* delay = base * (2 ** i)
DelayLinear(base, i) == base * (i + 1)

Delay(base, i) == base * Pow2(i)

\* `i >= attempts - 1`: the attempt with index i was the last one
LastAttempt(i, attempts) == i >= attempts - 1

NoBackoff == [pc |-> "off", variant |-> "", attempts |-> 0, base |-> 0, i |-> 0,
              ncalls |-> 0, thrown |-> <<>>, sleeps |-> <<>>,
              value |-> "", err |-> NoError]

\* --------------------------------------------------- llm.summarize (data)

\* llm.py:98: attempts=3
LlmAttempts == 3

JObj(o) == <<"obj", o>>

\* JSON objects the model can return: `valid` says whether
\* SummarizeResult.model_validate accepts the object, script_len is len(script)
Objects == [title : {"A", "B"}, valid : BOOLEAN, script_len : {10, MaxScriptChars + 1}]

\* elements of a JSON array
Elements == { JObj(o) : o \in Objects } \cup {JNum(1)}

\* what json.loads(text) can give
JsonValues ==
    { JObj(o) : o \in Objects }
  \cup { JArr(q) : q \in SeqsUpTo(Elements, MaxArray) }
  \cup {Null, JNum(1), JStr("x")}

\* resp.text of one generate_content call: text that json.loads rejects, or
\* text that parses to `data`
GeminiReplies == {[parses |-> FALSE, data |-> Null]} \cup [parses : {TRUE}, data : JsonValues]

\* exceptions generate_content (or the set-up before it) can raise, by class
GeminiErrors == {"RuntimeError", "HttpError", "ValueError"}

\* _coerce_to_object(data): the object, the first element of a list that
\* starts with an object, or RuntimeError
coerce_to_object(data) ==
    IF data[1] = "obj" THEN [raised |-> FALSE, value |-> data]
    ELSE IF data[1] = "arr" /\ data[2] # <<>> /\ data[2][1][1] = "obj"
    THEN [raised |-> FALSE, value |-> data[2][1]]
    ELSE [raised |-> TRUE, value |-> Null]

NoObject == [title |-> "", valid |-> FALSE, script_len |-> 0]

\* _call_gemini_once followed by SummarizeResult.model_validate and the script
\* cut of lines 104-105: the result, or the exception of lines 94, 39, 103
CallAndValidate(reply) ==
    IF ~reply.parses
    THEN [raised |-> TRUE, e |-> [type |-> "RuntimeError", msg |-> "Gemini returned non-JSON"],
          res |-> NoObject]
    ELSE IF coerce_to_object(reply.data).raised
    THEN [raised |-> TRUE, e |-> [type |-> "RuntimeError", msg |-> "Expected a JSON object"],
          res |-> NoObject]
    ELSE IF ~coerce_to_object(reply.data).value[2].valid
    THEN [raised |-> TRUE, e |-> [type |-> "ValidationError", msg |-> "SummarizeResult"],
          res |-> NoObject]
    ELSE [raised |-> FALSE, e |-> NoErr,
          res |-> [coerce_to_object(reply.data).value[2] EXCEPT
                      !.script_len = Min(@, MaxScriptChars)]]

\* `except (ValidationError, RuntimeError, HttpError)`
CaughtRuntimeOnly(type) == type \in {"RuntimeError", "HttpError"}

Caught(type) == type \in {"ValidationError", "RuntimeError", "HttpError"}

\* the loop `for i in range(attempts)` has run its last iteration
Exhausted(i, attempts) == i + 1 >= attempts

\* line 116: the failure raised after the loop
StructuredOutputFailed(attempts, last_err) ==
    [type |-> "RuntimeError",
     msg |-> "LLM structured output failed after " \o ToString(attempts)
             \o " attempts: " \o last_err.type \o ": " \o last_err.msg]

NoLlm == [pc |-> "off", attempts |-> 0, i |-> 0, ncalls |-> 0, sleeps |-> <<>>,
          raw |-> <<>>, coerced |-> <<>>, last_err |-> NoErr, res |-> NoObject, err |-> NoErr]

\* ------------------------------------------------------ data.query (data)

\* line 359: int(params.get("limit_rows") or 100_000)
DefaultLimitRows == 100000

\* A statement is a sequence of tokens: words (\w+ runs and punctuation), a
\* line comment marker -- (the comment runs to the next newline), a block
\* comment /* text */ and a newline.
W(t) == [k |-> "w", t |-> t]
LineComment == [k |-> "line", t |-> "--"]
BlockComment(t) == [k |-> "block", t |-> t]
Newline == [k |-> "nl", t |-> ""]
Words(q) == [i \in 1 .. Len(q) |-> W(q[i])]

\* str.upper() over the words of the model
Upper(t) ==
    CASE t = "drop" -> "DROP"
      [] t = "delete" -> "DELETE"
      [] t = "update" -> "UPDATE"
      [] t = "limit" -> "LIMIT"
      [] OTHER -> t

\* _SQL_GUARD: \b(INSERT|UPDATE|DELETE|DROP|ALTER|CREATE|REPLACE|MERGE)\b, re.I
GuardWords == {"INSERT", "UPDATE", "DELETE", "DROP", "ALTER", "CREATE", "REPLACE", "MERGE"}

SqlGuardCaseSensitive(t) == t \in GuardWords

SqlGuard(t) == Upper(t) \in GuardWords

\* re.sub(r"--.*?$", "", sql, flags=re.M): drop from -- to the end of the line
RECURSIVE StripLineComments(_, _)
StripLineComments(sql, in_comment) ==
    IF sql = <<>> THEN <<>>
    ELSE IF Head(sql).k = "nl"
    THEN <<Head(sql)>> \o StripLineComments(Tail(sql), FALSE)
    ELSE IF in_comment \/ Head(sql).k = "line"
    THEN StripLineComments(Tail(sql), TRUE)
    ELSE <<Head(sql)>> \o StripLineComments(Tail(sql), FALSE)

IsNotBlock(tok) == tok.k # "block"

\* re.sub(r"/\*.*?\*/", "", s, flags=re.S)
StripBlockComments(sql) == SelectSeq(sql, IsNotBlock)

StripComments(sql) == StripBlockComments(StripLineComments(sql, FALSE))

\* the guard sees every word left after the two substitutions
GuardMatches(sql) == \E i \in 1 .. Len(sql) : sql[i].k = "w" /\ SqlGuard(sql[i].t)

\* _sanitize_sql(sql): the stripped text, or ValueError
sanitize_sql(sql) ==
    IF GuardMatches(StripComments(sql))
    THEN [raised |-> TRUE, s |-> <<>>]
    ELSE [raised |-> FALSE, s |-> StripComments(sql)]

\* re.search(r"\blimit\b", sql, re.I): over the whole text, comments included
MentionsLimit(sql) == \E i \in 1 .. Len(sql) : Upper(sql[i].t) = "LIMIT"

\* sql.rstrip(";") + " LIMIT 5000"
RECURSIVE RStripSemicolons(_)
RStripSemicolons(sql) ==
    IF sql # <<>> /\ sql[Len(sql)] = W(";")
    THEN RStripSemicolons(SubSeq(sql, 1, Len(sql) - 1))
    ELSE sql

AppendLimit(sql) == RStripSemicolons(sql) \o Words(<<"LIMIT", "5000">>)

\* str.strip of the fence text: the characters backquote, s, q, l are removed
\* from both ends of the reply (@ stands for the backquote in the strings of
\* this module)
FenceChars == {"@", "s", "q", "l"}

RECURSIVE LStripChars(_)
LStripChars(t) ==
    IF Len(t) > 0 /\ SubSeq(t, 1, 1) \in FenceChars
    THEN LStripChars(SubSeq(t, 2, Len(t)))
    ELSE t

RECURSIVE RStripChars(_)
RStripChars(t) ==
    IF Len(t) > 0 /\ SubSeq(t, Len(t), Len(t)) \in FenceChars
    THEN RStripChars(SubSeq(t, 1, Len(t) - 1))
    ELSE t

IsNotFence(tok) == tok.t # "@@@" \/ tok.k # "w"
IsNotEmptyWord(tok) == tok.t # "" \/ tok.k # "w"

\* line 87: resp.text.strip(), the two strip calls on the fence texts, the
\* replace of the fence by nothing, strip() (a reply starts and ends with a word)
StripFences(sql) ==
    IF sql = <<>> THEN <<>>
    ELSE LET first == [sql EXCEPT ![1].t = LStripChars(@)]
             both == [first EXCEPT ![Len(sql)].t = RStripChars(@)]
         IN  SelectSeq(SelectSeq(both, IsNotEmptyWord), IsNotFence)

\* substring test: Python's operator in on strings
Contains(a, b) ==
    \E i \in 1 .. (Len(a) - Len(b) + 1) : SubSeq(a, i, i + Len(b) - 1) = b

\* the mappings table of _find_best_column_match
Mappings(t) ==
    CASE t = "sales" -> <<"total", "revenue", "amount", "sales">>
      [] t = "total" -> <<"total", "amount", "revenue", "sales">>
      [] t = "revenue" -> <<"total", "revenue", "amount", "sales">>
      [] t = "company" -> <<"company", "customer", "client", "name">>
      [] t = "companies" -> <<"company", "customer", "client", "name">>
      [] OTHER -> <<>>

\* the first column (in column order) that satisfies P, as a one-element
\* sequence, or <<>>
FirstWith(col_names, P(_)) ==
    IF \E i \in 1 .. Len(col_names) : P(col_names[i])
    THEN <<col_names[CHOOSE i \in 1 .. Len(col_names) :
                /\ P(col_names[i])
                /\ \A j \in 1 .. i - 1 : ~P(col_names[j])]>>
    ELSE <<>>

\* lines 139-143: the first preferred name found inside a column name
RECURSIVE MappedColumn(_, _)
MappedColumn(preferred, col_names) ==
    IF preferred = <<>> THEN <<>>
    ELSE LET P(col) == Contains(col, Head(preferred))
         IN  IF FirstWith(col_names, P) # <<>> THEN FirstWith(col_names, P)
             ELSE MappedColumn(Tail(preferred), col_names)

\* _find_best_column_match(target, col_names) (column names and question
\* words of the model are lower case already)
find_best_column_match(target, col_names) ==
    LET Exact(col) == col = target
        Partial(col) == Contains(col, target) \/ Contains(target, col)
    IN  IF MappedColumn(Mappings(target), col_names) # <<>>
        THEN MappedColumn(Mappings(target), col_names)[1]
        ELSE IF FirstWith(col_names, Exact) # <<>> THEN FirstWith(col_names, Exact)[1]
        ELSE IF FirstWith(col_names, Partial) # <<>> THEN FirstWith(col_names, Partial)[1]
        ELSE IF col_names # <<>> THEN col_names[1]
        ELSE "id"

build_sum_query(target_col, col_names) ==
    LET target == find_best_column_match(target_col, col_names)
    IN  Words(<<"SELECT", "SUM", "(", target, ")", "as", "total_" \o target, "FROM", "t">>)

build_group_by_query(measure_col, group_col, col_names) ==
    LET measure == find_best_column_match(measure_col, col_names)
        group == find_best_column_match(group_col, col_names)
    IN  Words(<<"SELECT", group, ",", "SUM", "(", measure, ")", "as", "total_" \o measure,
                "FROM", "t", "GROUP", "BY", group, "ORDER", "BY", "2", "DESC",
                "LIMIT", "10">>)

build_top_n_query(n, col, col_names) ==
    LET target == find_best_column_match(col, col_names)
    IN  Words(<<"SELECT", "*", "FROM", "t", "ORDER", "BY", target, "DESC",
                "LIMIT", ToString(Min(n, 100))>>)

build_avg_query(target_col, col_names) ==
    LET target == find_best_column_match(target_col, col_names)
    IN  Words(<<"SELECT", "AVG", "(", target, ")", "as", "avg_" \o target, "FROM", "t">>)

\* any(k in c["dtype"] for k in ["int", "float", "double", "decimal"])
IsNumericDtype(dtype) ==
    \E k \in {"int", "float", "double", "decimal"} : Contains(dtype, k)

ColNames(columns) == [i \in 1 .. Len(columns) |-> columns[i].name]

\* _fallback_query(columns)
fallback_query(columns) ==
    LET IsCat(c) == ~IsNumericDtype(c.dtype)
        IsNum(c) == IsNumericDtype(c.dtype)
    IN  IF FirstWith(columns, IsCat) # <<>> /\ FirstWith(columns, IsNum) # <<>>
        THEN Words(<<"SELECT", FirstWith(columns, IsCat)[1].name, "AS", "category", ",",
                     "SUM", "(", FirstWith(columns, IsNum)[1].name, ")", "AS", "value",
                     "FROM", "t", "GROUP", "BY", "1", "ORDER", "BY", "2", "DESC",
                     "LIMIT", "10">>)
        ELSE Words(<<"SELECT", "*", "FROM", "t", "LIMIT", "50">>)

\* int(m.group(1)) for the numerals of the model; -1: the word is not \d+
Numeral(w) ==
    CASE w = "5" -> 5
      [] w = "200" -> 200
      [] OTHER -> -1

\* the smallest index at which P holds, 0 if none (re.search takes the
\* leftmost match)
Leftmost(n, P(_)) ==
    IF \E k \in 1 .. n : P(k)
    THEN CHOOSE k \in 1 .. n : P(k) /\ \A j \in 1 .. k - 1 : ~P(j)
    ELSE 0

StartsWith(w, p) == Len(w) >= Len(p) /\ SubSeq(w, 1, Len(p)) = p
EndsWith(w, p) == Len(w) >= Len(p) /\ SubSeq(w, Len(w) - Len(p) + 1, Len(w)) = p

\* The four (pattern, builder) pairs of _nl2sql over the words q of the
\* lower-cased question: the SQL built, or <<>> when the pattern does not
\* match or its builder raises.
\*   \b(\w+)\s+by\s+(\w+)
GroupByShape(q, col_names) ==
    LET P(x) == x + 2 <= Len(q) /\ q[x + 1] = "by"
        k == Leftmost(Len(q), P)
    IN  IF k = 0 THEN <<>> ELSE build_group_by_query(q[k], q[k + 2], col_names)

\*   \btop\s+(\d+)\s+(\w+)
TopNShape(q, col_names) ==
    LET P(x) == x + 2 <= Len(q) /\ q[x] = "top" /\ Numeral(q[x + 1]) >= 0
        k == Leftmost(Len(q), P)
    IN  IF k = 0 THEN <<>>
        ELSE build_top_n_query(Numeral(q[k + 1]), q[k + 2], col_names)

\*   \b(?:total|sum)\s+(\w+)
SumShape(q, col_names) ==
    LET P(x) == x + 1 <= Len(q) /\ q[x] \in {"total", "sum"}
        k == Leftmost(Len(q), P)
    IN  IF k = 0 THEN <<>> ELSE build_sum_query(q[k + 1], col_names)

\*   \baverage|avg\s+(\w+) : the alternation is between \baverage (no
\*   group: the builder gets None and raises AttributeError, caught at line
\*   57) and avg\s+(\w+)
AvgShape(q, col_names) ==
    LET P(x) == \/ StartsWith(q[x], "average")
                \/ x + 1 <= Len(q) /\ EndsWith(q[x], "avg")
        k == Leftmost(Len(q), P)
    IN  IF k = 0 \/ StartsWith(q[k], "average") THEN <<>>
        ELSE build_avg_query(q[k + 1], col_names)

\* lines 52-58: the patterns in their order
PatternSql(q, col_names) ==
    IF GroupByShape(q, col_names) # <<>> THEN GroupByShape(q, col_names)
    ELSE IF TopNShape(q, col_names) # <<>> THEN TopNShape(q, col_names)
    ELSE IF SumShape(q, col_names) # <<>> THEN SumShape(q, col_names)
    ELSE AvgShape(q, col_names)

\* lines 84-98: what _nl2sql makes of the model's reply
FromLlm(reply) ==
    IF MentionsLimit(StripFences(reply)) THEN StripFences(reply)
    ELSE AppendLimit(StripFences(reply))

\* _nl2sql(question, columns); reply is <<>> when the model call raises, else
\* the one-element sequence of resp.text
nl2sql(q, columns, use_llm, reply) ==
    IF PatternSql(q, ColNames(columns)) # <<>> THEN PatternSql(q, ColNames(columns))
    ELSE IF ~use_llm THEN fallback_query(columns)
    ELSE IF reply = <<>> THEN fallback_query(columns)
    ELSE FromLlm(reply[1])

\* line 398: f"SELECT * FROM t LIMIT {min(50, limit_rows)}"
SafeFallback(limit_rows) ==
    Words(<<"SELECT", "*", "FROM", "t", "LIMIT", ToString(Min(50, limit_rows))>>)

\* int(params.get("limit_rows") or 100_000)
LimitRows(v) ==
    IF ~Truthy(v) THEN [raised |-> FALSE, n |-> DefaultLimitRows]
    ELSE IF v[1] = "num" THEN [raised |-> FALSE, n |-> v[2]]
    ELSE [raised |-> TRUE, n |-> 0]

\* ---- inputs
Questions ==
    { <<"top", "5", "companies", "by", "total">>,
      <<"top", "200", "companies">>,
      <<"total", "sales">>,
      <<"sum", "update">>,
      <<"avg", "total">>,
      <<"average", "total">>,
      <<"sales", "by", "region">>,
      <<"show", "everything">> }

Schemas ==
    { << [name |-> "company", dtype |-> "object"], [name |-> "total", dtype |-> "float64"] >>,
      << [name |-> "region", dtype |-> "object"], [name |-> "total_amount", dtype |-> "float64"],
         [name |-> "update", dtype |-> "int64"] >>,
      << [name |-> "total", dtype |-> "float64"] >> }

\* resp.text of the SQL-writing model call
LlmSqls ==
    { Words(<<"SELECT", "*", "FROM", "t">>),
      Words(<<"SELECT", "company", "FROM", "t", "LIMIT", "10", ";">>),
      Words(<<"select", "*", "from", "t", "limit", "5">>),
      Words(<<"@@@sql", "SELECT", "*", "FROM", "t", "LIMIT", "5", "@@@">>),
      Words(<<"DROP", "TABLE", "t">>),
      Words(<<"SELECT", "1", ";", "drop", "table", "t">>),
      Words(<<"SELECT", "*", "FROM", "t">>) \o <<BlockComment("DELETE")>>
          \o Words(<<"LIMIT", "5">>),
      Words(<<"SELECT", "*", "FROM", "t">>) \o <<LineComment>>
          \o Words(<<"no", "limit">>),
      Words(<<"SELECT", "dropped", "FROM", "t", "LIMIT", "5">>) }

QueryParams ==
    [dataset_id : {"", "ds1"}, question : Questions \cup {<<>>},
     limit_rows : {Null, JNum(0), JNum(2), JStr("many")}]

NoQueryResult == [chart_png_path |-> "", table_md |-> "", insights |-> <<>>, sql |-> <<>>]

\* lines 452-457: the result returned by the except clause
Degraded(question, e) ==
    [chart_png_path |-> "",
     table_md |-> "Error processing query",
     insights |-> <<"Could not process", "Error: " \o e>>,
     sql |-> <<LineComment>> \o Words(<<"Failed:">>) \o Words(question)]

NoQuery == [pc |-> "off",
            params |-> [dataset_id |-> "", question |-> <<>>, limit_rows |-> Null],
            limit_rows |-> 0, cols |-> <<>>, generated |-> <<>>, rejected |-> FALSE,
            sql |-> <<>>, executed |-> <<>>, rows |-> 0, failed |-> "",
            result |-> NoQueryResult, err |-> ""]

\* ------------------------------------------- history of orchestrate calls
\* nothing is known before the first call has ended
NoHist == [sections |-> <<>>, failed_at |-> 0, lost |-> FALSE]

\* ------------------------------------------------------- rpc_client.py
\* the ids a call can send (req_id, or a uuid4 when none is given)
CallIds == {"r1", "r2"}

\* what the reader thread can find on the server's stdout, one line each:
\*   "garbage" text that is not JSON     "scalar" JSON that is not an object
\*   "object"  a JSON object: its id member (null also when it has none) and
\*             whether it has an error member
StdoutLines ==
    { [kind |-> k, id |-> <<"null">>, error |-> FALSE] : k \in {"garbage", "scalar"} }
    \cup { [kind |-> "object", id |-> i, error |-> e] :
              i \in { <<"null">> } \cup { <<"str", r>> : r \in CallIds }, e \in BOOLEAN }

\* lines 77-85: what one pass of the loop does with the line it took
\*   "skip"            continue (JSONDecodeError, or another id)
\*   "AttributeError"  resp.get on a value that is not a dict (line 81)
\*   "ToolError"       raise ToolError(resp["error"])
\*   "result"          return resp.get("result", {})
HandleLine(line, rid) ==
    IF line.kind = "garbage" THEN "skip"
    ELSE IF line.kind = "scalar" THEN "AttributeError"
    ELSE IF line.id # <<"str", rid>> THEN "skip"
    ELSE IF line.error THEN "ToolError"
    ELSE "result"

\* a client that is not in a call
\*   rx: the queue the reader fills       taken: the lines the loop has taken
\*   expired: time.time() >= deadline     outcome: how the call ended
NoClient == [pc |-> "off", rid |-> "", rx |-> <<>>, nput |-> 0, expired |-> FALSE,
             taken |-> <<>>, outcome |-> ""]

\* ----------------------------------------------------------- imagen.py
\* path = out_dir / f"imagen_{int(time.time())}.png" (lines 64-65), ts the
\* clock's second
LocalPath(ts) == "out/images/imagen_" \o ToString(ts) \o ".png"

\* no call yet: nothing under out/images
\*   files: path -> the image the file holds (images are numbered by the call
\*   that generated them)        returned: the results of the successful calls
NoImagen == [ncalls |-> 0, files |-> [f \in {} |-> 0], returned |-> <<>>]

Init ==
    /\ idem = EmptyMap
    /\ llmCache = EmptyMap
    /\ imgCache = EmptyMap
    /\ now = 0
    /\ nextId = 1
    /\ nextUuid = 1
    /\ nruns = 0
    /\ prev = NoPrev
    /\ pc = "idle"
    /\ run = NoRun
    /\ s = <<>>
    /\ idx = 0
    /\ img = NoImage
    /\ created = NoCreated
    /\ log = <<>>
    /\ calls = ZeroCalls
    /\ result = NullResult
    /\ err = NoErr
    /\ batch = NoBatch
    /\ ndirect = 0
    /\ workers = NoWorkers
    /\ srv = NoServer
    /\ bk = NoBackoff
    /\ llm = NoLlm
    /\ dq = NoQuery
    /\ hist = NoHist
    /\ cli = NoClient
    /\ ig = NoImagen

\* derived values of the running call
Sections == IF s = <<>> THEN <<>> ELSE Normalize(s[1])
ActualSlides == Actual(run.slide_count, Sections)
CurKey == LlmCacheKey(run.report, LlmModel, run.slide_count)

\* ------------------------------------------------------------ orchestrate

\* at time t every entry of both caches is younger than ttl
EntriesFresh(ttl, t) ==
    /\ \A k \in DOMAIN llmCache : t - llmCache[k].created_at <= ttl
    /\ \A k \in DOMAIN imgCache : t - imgCache[k].created_at <= ttl

\* orchestrate(report_text, client_request_id=..., slide_count=..., ...): entry
\* (entries_fresh is not an argument: it notes what the caches held on entry)
Begin(client, report, count, use_cache, ttl) ==
    /\ pc = "idle"
    /\ nruns' = nruns + 1
    /\ run' = [req_id |-> IF client # "" THEN client ELSE Uuid(nextUuid),
               report |-> report, slide_count |-> count,
               use_cache |-> use_cache, ttl |-> ttl,
               entries_fresh |-> EntriesFresh(ttl, now)]
    /\ nextUuid' = IF client # "" THEN nextUuid ELSE nextUuid + 1
    /\ pc' = "summarize"
    /\ s' = <<>>
    /\ idx' = 0
    /\ img' = NoImage
    /\ created' = NoCreated
    /\ log' = <<>>
    /\ calls' = ZeroCalls
    /\ result' = NullResult
    /\ err' = NoErr
    /\ UNCHANGED <<idem, llmCache, imgCache, now, nextId, prev, ndirect, workers, srv, bk, llm, dq, hist, cli, ig>>

Start(client, report, count, use_cache, ttl) ==
    /\ batch.pc # "running"
    /\ nruns = 0
    /\ Begin(client, report, count, use_cache, ttl)
    /\ UNCHANGED batch

\* a later call of orchestrate over the same report, with the same slide_count
Again(client, use_cache) ==
    /\ batch.pc # "running"
    /\ prev.valid
    /\ nruns < MaxRuns
    /\ Begin(client, prev.run.report, prev.run.slide_count, use_cache, prev.run.ttl)
    /\ UNCHANGED batch

\* lines 76-106: normalize, clamp, and return early when there is nothing to build
Planned(sv) ==
    /\ s' = <<sv>>
    /\ IF Actual(run.slide_count, Normalize(sv)) = 0
       THEN /\ pc' = "done"
            /\ idx' = 0
       ELSE /\ pc' = "image"
            /\ idx' = 1
    /\ result' = NullResult

\* lines 64-68: cache hit for the summary
SummarizeCached ==
    /\ pc = "summarize"
    /\ run.use_cache
    /\ CacheGet(llmCache, CurKey, run.ttl, now) # <<>>
    /\ Planned(CacheGet(llmCache, CurKey, run.ttl, now)[1])
    /\ UNCHANGED <<idem, llmCache, imgCache, now, nextId, nextUuid, nruns,
                   prev, run, img, created, log, calls, err, batch, ndirect, workers, srv, bk, llm, dq, hist, cli, ig>>

\* lines 46-62, 69-74: llm.summarize answers with a result
SummarizeCall(out) ==
    /\ pc = "summarize"
    /\ ~run.use_cache \/ CacheGet(llmCache, CurKey, run.ttl, now) = <<>>
    /\ log' = Append(log, LogEntry("llm.summarize", run.req_id, 0,
                                LlmParams(run.report, run.slide_count), "ok", NoTool))
    /\ llmCache' = IF run.use_cache THEN CacheSet(llmCache, CurKey, out, now) ELSE llmCache
    /\ Planned(out)
    /\ UNCHANGED <<idem, imgCache, now, nextId, nextUuid, nruns,
                   prev, run, img, created, calls, err, batch, ndirect, workers, srv, bk, llm, dq, hist, cli, ig>>

\* what orchestrate does when llm.summarize does not succeed: nothing catches
\* the exception raised by client.call (lines 46-74)
AfterSummarizeFailureNull(kind) == "done"

AfterSummarizeFailure(kind) == "raised"

\* llm.summarize answers with an error, or not in time: the exception leaves orchestrate
SummarizeFail(kind) ==
    /\ pc = "summarize"
    /\ ~run.use_cache \/ CacheGet(llmCache, CurKey, run.ttl, now) = <<>>
    /\ log' = Append(log, LogEntry("llm.summarize", run.req_id, 0,
                                LlmParams(run.report, run.slide_count), kind, NoTool))
    /\ pc' = AfterSummarizeFailure(kind)
    /\ err' = IF kind = "error" THEN ToolError("llm.summarize") ELSE TimeoutError("llm.summarize")
    /\ UNCHANGED <<idem, llmCache, imgCache, now, nextId, nextUuid, nruns,
                   prev, run, s, idx, img, created, calls, result, batch, ndirect, workers, srv, bk, llm, dq, hist, cli, ig>>


\* the section of the current iteration and its image cache key
CurSection == SectionAt(Sections, idx)
CurImageKey == imagen_key(CurSection.image_prompt, "16:9", ImagenSize, ImagenModel, TRUE)
CurSlideId == PerSlideId(run.req_id, idx)

\* line 143: icached and (icached.get("image_url") or icached.get("drive_file_id"))
ImageCacheUsable ==
    /\ run.use_cache
    /\ CacheGet(imgCache, CurImageKey, run.ttl, now) # <<>>
    /\ \/ CacheGet(imgCache, CurImageKey, run.ttl, now)[1].image_url # ""
       \/ CacheGet(imgCache, CurImageKey, run.ttl, now)[1].drive_file_id # ""

\* line 138: the section has no image_prompt, no image step
ImageSkip ==
    /\ pc = "image"
    /\ CurSection.image_prompt = ""
    /\ img' = NoImage
    /\ pc' = "slide"
    /\ UNCHANGED <<idem, llmCache, imgCache, now, nextId, nextUuid, nruns,
                   prev, run, s, idx, created, log, calls, result, err, batch, ndirect, workers, srv, bk, llm, dq, hist, cli, ig>>

\* lines 140-146: image cache hit
ImageCached ==
    /\ pc = "image"
    /\ CurSection.image_prompt # ""
    /\ ImageCacheUsable
    /\ img' = [image_url |-> CacheGet(imgCache, CurImageKey, run.ttl, now)[1].image_url,
               image_drive_file_id |->
                   CacheGet(imgCache, CurImageKey, run.ttl, now)[1].drive_file_id,
               image_local_path |-> ""]
    /\ pc' = "slide"
    /\ UNCHANGED <<idem, llmCache, imgCache, now, nextId, nextUuid, nruns,
                   prev, run, s, idx, created, log, calls, result, err, batch, ndirect, workers, srv, bk, llm, dq, hist, cli, ig>>

\* lines 147-159: image.generate answers with a result g
ImageCall(g) ==
    /\ pc = "image"
    /\ CurSection.image_prompt # ""
    /\ ~ImageCacheUsable
    /\ log' = Append(log, LogEntry("image.generate", CurSlideId, idx, NoParams, "ok", NoTool))
    /\ img' = [image_url |-> g.url, image_drive_file_id |-> g.drive_file_id,
               image_local_path |-> g.local_path]
    /\ imgCache' = IF run.use_cache
                   THEN CacheSet(imgCache, CurImageKey,
                                 [image_url |-> g.url, drive_file_id |-> g.drive_file_id], now)
                   ELSE imgCache
    /\ pc' = "slide"
    /\ UNCHANGED <<idem, llmCache, now, nextId, nextUuid, nruns,
                   prev, run, s, idx, created, calls, result, err, batch, ndirect, workers, srv, bk, llm, dq, hist, cli, ig>>

\* what orchestrate does when image.generate does not succeed:
\* `except ToolError` (line 166) catches the error answer only
AfterImageFailure(kind) == IF kind = "error" THEN "slide" ELSE "raised"

\* image.generate answers with an error (kind = "error") or not in time ("timeout")
ImageFail(kind) ==
    /\ pc = "image"
    /\ CurSection.image_prompt # ""
    /\ ~ImageCacheUsable
    /\ log' = Append(log, LogEntry("image.generate", CurSlideId, idx, NoParams, kind, NoTool))
    /\ img' = NoImage
    /\ pc' = AfterImageFailure(kind)
    /\ err' = IF AfterImageFailure(kind) = "raised" THEN TimeoutError("image.generate") ELSE err
    /\ UNCHANGED <<idem, llmCache, imgCache, now, nextId, nextUuid, nruns,
                   prev, run, s, idx, created, calls, result, batch, ndirect, workers, srv, bk, llm, dq, hist, cli, ig>>

AddCalls(a, b) == [cred |-> a.cred + b.cred, pres |-> a.pres + b.pres,
                   upload |-> a.upload + b.upload, slide |-> a.slide + b.slide]

\* lines 195-198: capture the deck identity from the first slide's result
Capture(i, cr, res) ==
    IF i = 1
    THEN [presentation_id |-> OrId(res.presentation_id, cr.presentation_id),
          url |-> OrUrl(res.url, cr.url),
          first_slide_id |-> OrSlide(res.slide_id, cr.first_slide_id)]
    ELSE cr

\* what orchestrate does when slides.create does not succeed: nothing catches
\* the exception raised by client.call (line 193)
AfterSlideFailure(i) == "raised"

\* lines 169-216: one slides.create call, the capture, and the loop advance or return.
\* b is what the remote backends do; timeout: the answer does not arrive in time.
SlideCall(b, timeout) ==
    LET p == SlideParams(run.req_id, idx, CurSection, img, created.presentation_id)
        r == slides_create_tool(p, b, idem, nextId)
        out == IF timeout THEN "timeout" ELSE IF r.res.ok THEN "ok" ELSE "error"
        cr == Capture(idx, created, r.res)
    IN  /\ pc = "slide"
        /\ idem' = r.idem
        /\ nextId' = r.nid
        /\ calls' = AddCalls(calls, r.calls)
        /\ log' = Append(log, LogEntry("slides.create", p.client_request_id, idx, p, out, r))
        /\ IF out = "ok"
           THEN /\ created' = cr
                /\ err' = err
                /\ IF idx = ActualSlides
                   THEN /\ pc' = "done"
                        /\ idx' = idx
                        /\ result' = [presentation_id |-> cr.presentation_id, url |-> cr.url,
                                      created_slides |-> ActualSlides,
                                      first_slide_id |-> cr.first_slide_id]
                   ELSE /\ pc' = "image"
                        /\ idx' = idx + 1
                        /\ result' = result
           ELSE /\ created' = created
                /\ idx' = idx
                /\ pc' = AfterSlideFailure(idx)
                /\ err' = IF AfterSlideFailure(idx) = "raised"
                          THEN IF timeout THEN TimeoutError("slides.create")
                                          ELSE ToolError("slides.create")
                          ELSE err
                /\ result' = IF AfterSlideFailure(idx) = "done"
                             THEN [presentation_id |-> created.presentation_id,
                                   url |-> created.url, created_slides |-> idx - 1,
                                   first_slide_id |-> created.first_slide_id]
                             ELSE result
        /\ UNCHANGED <<llmCache, imgCache, now, nextUuid, nruns, prev, run, s, img,
                       batch, ndirect, workers, srv, bk, llm, dq, hist, cli, ig>>

\* the locals of a call that has returned or raised
Returned ==
    /\ pc' = "idle"
    /\ prev' = [valid |-> TRUE, run |-> run, status |-> pc, result |-> result]
    /\ run' = NoRun
    /\ s' = <<>>
    /\ idx' = 0
    /\ img' = NoImage
    /\ created' = NoCreated
    /\ log' = <<>>
    /\ calls' = ZeroCalls
    /\ result' = NullResult
    /\ err' = NoErr

\* orchestrate returns to (or raises into) its caller
Finish ==
    /\ pc \in {"done", "raised"}
    /\ batch.pc # "running"
    /\ Returned
    /\ UNCHANGED <<idem, llmCache, imgCache, now, nextId, nextUuid, nruns,
                   batch, ndirect, workers, srv, bk, llm, dq, hist, cli, ig>>

\* time passes between two calls of orchestrate
Tick ==
    /\ pc = "idle"
    /\ now < MaxClock
    /\ now' = now + 1
    /\ UNCHANGED <<idem, llmCache, imgCache, nextId, nextUuid, nruns, prev,
                   pc, run, s, idx, img, created, log, calls, result, err, batch, ndirect, workers, srv, bk, llm, dq, hist, cli, ig>>

Next ==
    \/ \E c \in ClientIds, rep \in Reports, n \in SlideCounts, u \in BOOLEAN, ttl \in TTLs :
          Start(c, rep, n, u, ttl)
    \/ \E c \in ClientIds, u \in BOOLEAN : Again(c, u)
    \/ SummarizeCached
    \/ \E out \in SummarizerOutputs : SummarizeCall(out)
    \/ \E kind \in {"error", "timeout"} : SummarizeFail(kind)
    \/ ImageSkip
    \/ ImageCached
    \/ \E g \in ImageResults : ImageCall(g)
    \/ \E kind \in {"error", "timeout"} : ImageFail(kind)
    \/ \E b \in Backends, timeout \in BOOLEAN : SlideCall(b, timeout)
    \/ Finish
    \/ Tick

Spec == Init /\ [][Next]_vars


\* ------------------------------------------------------- orchestrate_many

\* the (name, text) pairs a batch is made of
BatchItems == { <<"a.txt", "A">>, <<"b.txt", "B">>, <<"c.txt", "A">> }
BatchSlideCounts == {1, 2}

\* orchestrate_many(items, slide_count=...): entry (line 230)
StartBatch(items, count) ==
    /\ pc = "idle"
    /\ batch.pc = "none"
    /\ batch' = [pc |-> "running", items |-> items, results |-> <<>>, slide_count |-> count]
    /\ UNCHANGED <<idem, llmCache, imgCache, now, nextId, nextUuid, nruns, prev,
                   pc, run, s, idx, img, created, log, calls, result, err, ndirect, workers, srv, bk, llm, dq, hist, cli, ig>>

\* lines 233-237: the next item is handed to orchestrate (use_cache keeps its default)
BatchItem ==
    /\ batch.pc = "running"
    /\ Len(batch.results) < Len(batch.items)
    /\ Begin(StableRequestId(batch.items[Len(batch.results) + 1][2]),
             batch.items[Len(batch.results) + 1][2], batch.slide_count, FALSE, 0)
    /\ UNCHANGED batch

\* lines 238-258: orchestrate returned or raised; one record is appended
BatchAppend ==
    /\ batch.pc = "running"
    /\ pc \in {"done", "raised"}
    /\ batch' = [batch EXCEPT !.results =
                    Append(@, BatchRecord(batch.items[Len(batch.results) + 1][1],
                                          run.req_id, pc, result, err))]
    /\ Returned
    /\ UNCHANGED <<idem, llmCache, imgCache, now, nextId, nextUuid, nruns, ndirect, workers, srv, bk, llm, dq, hist, cli, ig>>

\* line 265: return results
BatchReturn ==
    /\ batch.pc = "running"
    /\ pc = "idle"
    /\ Len(batch.results) = Len(batch.items)
    /\ batch' = [batch EXCEPT !.pc = "done"]
    /\ UNCHANGED <<idem, llmCache, imgCache, now, nextId, nextUuid, nruns, prev,
                   pc, run, s, idx, img, created, log, calls, result, err, ndirect, workers, srv, bk, llm, dq, hist, cli, ig>>

NextBatch ==
    \/ \E items \in SeqsUpTo(BatchItems, MaxItems), n \in BatchSlideCounts :
          StartBatch(items, n)
    \/ BatchItem
    \/ \E out \in SummarizerOutputs : SummarizeCall(out)
    \/ \E kind \in {"error", "timeout"} : SummarizeFail(kind)
    \/ ImageSkip
    \/ \E g \in ImageResults : ImageCall(g)
    \/ \E kind \in {"error", "timeout"} : ImageFail(kind)
    \/ \E b \in Backends, timeout \in BOOLEAN : SlideCall(b, timeout)
    \/ BatchAppend
    \/ BatchReturn

SpecBatch == Init /\ [][NextBatch]_vars

\* ------------------------------------------- slides.create called directly

DirectParams ==
    [client_request_id : {"", "k1", "k2"}, title : {"Acme"},
     image_url : {"", "https://img"}, image_drive_file_id : {"", "file-1"},
     image_local_path : {"", "out/images/imagen.png"},
     presentation_id : {NoId, 1}]

\* one call of slides_create_tool(params), outside any orchestrate call
DirectCall(p, b) ==
    LET r == slides_create_tool(p, b, idem, nextId)
    IN  /\ pc = "idle"
        /\ ndirect < MaxDirect
        /\ ndirect' = ndirect + 1
        /\ idem' = r.idem
        /\ nextId' = r.nid
        /\ calls' = r.calls
        /\ log' = << LogEntry("slides.create", p.client_request_id, 0, p,
                              IF r.res.ok THEN "ok" ELSE "error", r) >>
        /\ UNCHANGED <<llmCache, imgCache, now, nextUuid, nruns, prev, pc, run, s, idx,
                       img, created, result, err, batch, workers, srv, bk, llm, dq, hist, cli, ig>>

NextTool == \E p \in DirectParams, b \in Backends : DirectCall(p, b)

SpecTool == Init /\ [][NextTool]_vars


\* ------------------ slides.create in several server processes, one store file

\* src/common/idempotency.py: load_cache() returns the mapping the file holds,
\* save_cache(cache) replaces the file's content by the mapping it is given
load_cache(file) == file

save_cache(file, cache) == cache

\* the requests the processes are handed
WorkerParams ==
    [client_request_id : {"k1", "k2"}, title : {"Acme"},
     image_url : {"", "https://img"}, image_drive_file_id : {""},
     image_local_path : {""}, presentation_id : {NoId}]

\* lines 109-121: the process validates the params, reads the store and, on a
\* hit, answers from it
WorkerLoad(w, p) ==
    LET cache == load_cache(idem)
    IN  /\ pc = "idle"
        /\ workers[w].pc = "idle"
        /\ workers' = [workers EXCEPT ![w] =
              IF IdemHit(p, cache)
              THEN [pc |-> "done", p |-> p, cache |-> cache,
                    res |-> slides_create_tool(p, BackendOk, cache, nextId).res]
              ELSE [pc |-> "loaded", p |-> p, cache |-> cache, res |-> NoRes]]
        /\ UNCHANGED <<idem, llmCache, imgCache, now, nextId, nextUuid, nruns, prev,
                       pc, run, s, idx, img, created, log, calls, result, err, batch,
                       ndirect, srv, bk, llm, dq, hist, cli, ig>>

\* lines 123-214: the backend calls, then the write of the mapping read at line
\* 112 with this call's entry added (lines 203-205)
WorkerFinish(w, b) ==
    LET me == workers[w]
        r == slides_create_tool(me.p, b, me.cache, nextId)
    IN  /\ me.pc = "loaded"
        /\ nextId' = r.nid
        /\ idem' = IF r.res.ok /\ me.p.client_request_id # ""
                   THEN save_cache(idem, r.idem)
                   ELSE idem
        /\ workers' = [workers EXCEPT ![w] =
              [me EXCEPT !.pc = IF r.res.ok THEN "done" ELSE "failed", !.res = r.res]]
        /\ UNCHANGED <<llmCache, imgCache, now, nextUuid, nruns, prev,
                       pc, run, s, idx, img, created, log, calls, result, err, batch,
                       ndirect, srv, bk, llm, dq, hist, cli, ig>>

NextConc ==
    \/ \E w \in Procs, p \in WorkerParams : WorkerLoad(w, p)
    \/ \E w \in Procs, b \in Backends : WorkerFinish(w, b)

SpecConc == Init /\ [][NextConc]_vars


\* ------------------------------------------------------------ serve_stdio

\* `python -m src.mcp.server`: the module is imported (TOOLS is filled or left
\* empty) and serve_stdio enters its loop
ServerStart(tools) ==
    /\ pc = "idle"
    /\ srv.pc = "off"
    /\ srv' = [srv EXCEPT !.pc = "read", !.tools = tools]
    /\ UNCHANGED <<idem, llmCache, imgCache, now, nextId, nextUuid, nruns, prev,
                   pc, run, s, idx, img, created, log, calls, result, err, batch,
                   ndirect, workers, bk, llm, dq, hist, cli, ig>>

\* the client writes a line to the server's stdin
ClientSend(line) ==
    /\ pc = "idle"
    /\ ~srv.closed
    /\ srv.nsent < MaxLines
    /\ srv' = [srv EXCEPT !.pipe = Append(@, line), !.nsent = @ + 1]
    /\ UNCHANGED <<idem, llmCache, imgCache, now, nextId, nextUuid, nruns, prev,
                   pc, run, s, idx, img, created, log, calls, result, err, batch,
                   ndirect, workers, bk, llm, dq, hist, cli, ig>>

\* the client closes the server's stdin
ClientClose ==
    /\ pc = "idle"
    /\ ~srv.closed
    /\ srv' = [srv EXCEPT !.closed = TRUE]
    /\ UNCHANGED <<idem, llmCache, imgCache, now, nextId, nextUuid, nruns, prev,
                   pc, run, s, idx, img, created, log, calls, result, err, batch,
                   ndirect, workers, bk, llm, dq, hist, cli, ig>>

\* line 81: readline() returns the next line
ReadLine ==
    /\ srv.pc = "read"
    /\ srv.pipe # <<>>
    /\ srv' = [srv EXCEPT !.pc = "line", !.cur = Head(srv.pipe), !.pipe = Tail(@),
                          !.rd = Append(@, Head(srv.pipe))]
    /\ UNCHANGED <<idem, llmCache, imgCache, now, nextId, nextUuid, nruns, prev,
                   pc, run, s, idx, img, created, log, calls, result, err, batch,
                   ndirect, workers, bk, llm, dq, hist, cli, ig>>

\* lines 81-84, 109-110: readline() returns '', the loop is left, return 0
ReadEOF ==
    /\ srv.pc = "read"
    /\ AtEOF(srv.pipe, srv.closed)
    /\ srv' = [srv EXCEPT !.pc = "exited", !.eof = TRUE, !.code = 0]
    /\ UNCHANGED <<idem, llmCache, imgCache, now, nextId, nextUuid, nruns, prev,
                   pc, run, s, idx, img, created, log, calls, result, err, batch,
                   ndirect, workers, bk, llm, dq, hist, cli, ig>>

\* lines 86-88: a line that is empty once stripped is skipped
SkipBlank ==
    /\ srv.pc = "line"
    /\ Strip(srv.cur).kind = "empty"
    /\ srv' = [srv EXCEPT !.pc = "read"]
    /\ UNCHANGED <<idem, llmCache, imgCache, now, nextId, nextUuid, nruns, prev,
                   pc, run, s, idx, img, created, log, calls, result, err, batch,
                   ndirect, workers, bk, llm, dq, hist, cli, ig>>

\* lines 90-96: json.loads raises JSONDecodeError; the parse error is written
RejectJson ==
    /\ srv.pc = "line"
    /\ Strip(srv.cur).kind # "empty"
    /\ ~JsonLoads(Strip(srv.cur)).ok
    /\ srv' = [srv EXCEPT !.pc = "read",
                          !.out = Write(@, ErrorResponse(Null, -32700, "Invalid JSON"))]
    /\ UNCHANGED <<idem, llmCache, imgCache, now, nextId, nextUuid, nruns, prev,
                   pc, run, s, idx, img, created, log, calls, result, err, batch,
                   ndirect, workers, bk, llm, dq, hist, cli, ig>>

\* lines 98-101: the request is dispatched and its response written and flushed
Dispatch(outcome) ==
    LET parsed == JsonLoads(Strip(srv.cur))
        h == HandleRequest(parsed, srv.tools, outcome)
    IN  /\ srv.pc = "line"
        /\ Strip(srv.cur).kind # "empty"
        /\ parsed.ok
        /\ ~h.raised
        /\ srv' = [srv EXCEPT !.pc = "read",
                              !.out = Write(@, h.resp),
                              !.calls = IF h.invoked
                                        THEN Append(@, [method |-> GetMethod(parsed.req),
                                                        id |-> GetId(parsed.req),
                                                        outcome |-> outcome])
                                        ELSE @]
        /\ UNCHANGED <<idem, llmCache, imgCache, now, nextId, nextUuid, nruns, prev,
                       pc, run, s, idx, img, created, log, calls, result, err, batch,
                       ndirect, workers, bk, llm, dq, hist, cli, ig>>

\* lines 98, 105-107: an exception leaves _handle_request; serve_stdio logs it
\* and returns 1 without writing a response
ServerError ==
    LET parsed == JsonLoads(Strip(srv.cur))
    IN  /\ srv.pc = "line"
        /\ Strip(srv.cur).kind # "empty"
        /\ parsed.ok
        /\ HandleRequest(parsed, srv.tools, NoOutcome).raised
        /\ srv' = [srv EXCEPT !.pc = "exited", !.code = 1]
        /\ UNCHANGED <<idem, llmCache, imgCache, now, nextId, nextUuid, nruns, prev,
                       pc, run, s, idx, img, created, log, calls, result, err, batch,
                       ndirect, workers, bk, llm, dq, hist, cli, ig>>

\* the steps the server process takes by itself
ServerStep ==
    \/ ReadLine
    \/ ReadEOF
    \/ SkipBlank
    \/ RejectJson
    \/ \E outcome \in ToolOutcomes : Dispatch(outcome)
    \/ ServerError

NextServer ==
    \/ \E tools \in Registries : ServerStart(tools)
    \/ \E line \in Lines : ClientSend(line)
    \/ ClientClose
    \/ ReadLine
    \/ ReadEOF
    \/ SkipBlank
    \/ RejectJson
    \/ \E outcome \in ToolOutcomes : Dispatch(outcome)
    \/ ServerError

SpecServer == Init /\ [][NextServer]_vars

\* the server process keeps running: a step it can take is eventually taken
\* (a tool call returns or raises)
SpecServerLive == SpecServer /\ WF_vars(ServerStep)


\* ------------------------------------ orchestrate called again, cache in use

\* a later call of orchestrate over the same report with any slide_count
Repeat(client, count, use_cache) ==
    /\ batch.pc # "running"
    /\ prev.valid
    /\ nruns < MaxRuns
    /\ Begin(client, prev.run.report, count, use_cache, prev.run.ttl)
    /\ UNCHANGED batch

\* what the Slides backends do in these runs
CacheBackends == {BackendOk, [BackendOk EXCEPT !.slide = "fail"]}

NextCache ==
    \/ \E n \in SlideCounts, u \in BOOLEAN, ttl \in TTLs : Start("req-123", "A", n, u, ttl)
    \/ \E c \in ClientIds, n \in SlideCounts, u \in BOOLEAN : Repeat(c, n, u)
    \/ SummarizeCached
    \/ \E out \in SummarizerOutputs : SummarizeCall(out)
    \/ \E kind \in {"error", "timeout"} : SummarizeFail(kind)
    \/ ImageSkip
    \/ ImageCached
    \/ \E g \in ImageResults : ImageCall(g)
    \/ \E kind \in {"error", "timeout"} : ImageFail(kind)
    \/ \E b \in CacheBackends : SlideCall(b, FALSE)
    \/ Finish
    \/ Tick

SpecCache == Init /\ [][NextCache]_vars


\* ================================================================ claims

\* ------------------------------------------- _backoff / _backoff_retry

\* the state of the orchestrator, of slides.create and of the server, which the
\* tool-level primitives below never touch
progVars == <<idem, llmCache, imgCache, now, nextId, nextUuid, nruns, prev,
              pc, run, s, idx, img, created, log, calls, result, err, batch, ndirect,
              workers, srv>>

\* _backoff(fn, attempts, base) is entered; `for i in range(attempts)` with
\* attempts <= 0 has no iteration and the function returns None
BackoffStart(variant, attempts, base) ==
    /\ bk.pc = "off"
    /\ bk' = [NoBackoff EXCEPT !.pc = IF attempts <= 0 THEN "returned" ELSE "call",
                               !.variant = variant, !.attempts = attempts,
                               !.base = base]
    /\ UNCHANGED <<progVars, llm, dq, hist, cli, ig>>

\* one iteration in which fn() returns: `return fn()`
InvokeOk(v) ==
    /\ bk.pc = "call"
    /\ bk' = [bk EXCEPT !.pc = "returned", !.ncalls = @ + 1, !.value = v]
    /\ UNCHANGED <<progVars, llm, dq, hist, cli, ig>>

\* one iteration in which fn() raises e: re-raise on the last attempt or for
\* an error that is not retryable, else sleep base * 2**i and go round again
InvokeFail(e) ==
    /\ bk.pc = "call"
    /\ bk' = IF LastAttempt(bk.i, bk.attempts) \/ ~retryable_http(bk.variant, e)
             THEN [bk EXCEPT !.pc = "raised", !.ncalls = @ + 1,
                             !.thrown = Append(@, e), !.err = e]
             ELSE [bk EXCEPT !.ncalls = @ + 1, !.thrown = Append(@, e),
                             !.sleeps = Append(@, Delay(bk.base, bk.i)),
                             !.i = @ + 1]
    /\ UNCHANGED <<progVars, llm, dq, hist, cli, ig>>

NextBackoff ==
    \/ \E variant \in Variants, attempts \in AttemptsValues, base \in BaseValues :
          BackoffStart(variant, attempts, base)
    \/ \E v \in Values : InvokeOk(v)
    \/ \E e \in Errors : InvokeFail(e)

SpecBackoff == Init /\ [][NextBackoff]_vars

\* --------------------------------------------------------- llm.summarize

\* llm_summarize_tool -> _retry_json_validate(p, attempts)
SummarizeStart(attempts) ==
    /\ llm.pc = "off"
    /\ llm' = [NoLlm EXCEPT !.pc = "call", !.attempts = attempts]
    /\ UNCHANGED <<progVars, bk, dq, hist, cli, ig>>

\* what one iteration does with the exception e it caught: remember it, sleep
\* base * 2**i, and raise line 116's failure when that was the last iteration
AfterFailure(st, e) ==
    [st EXCEPT !.ncalls = @ + 1, !.last_err = e,
               !.sleeps = Append(@, Delay(DefaultBase, st.i)),
               !.i = @ + 1,
               !.pc = IF Exhausted(st.i, st.attempts) THEN "raised" ELSE "call",
               !.err = IF Exhausted(st.i, st.attempts)
                       THEN StructuredOutputFailed(st.attempts, e) ELSE NoErr]

\* the rest of an iteration, given what lines 102-105 produced
Iteration(st, out) ==
    IF ~out.raised
    THEN [st EXCEPT !.pc = "returned", !.ncalls = @ + 1, !.res = out.res]
    ELSE IF Caught(out.e.type)
    THEN AfterFailure(st, out.e)
    ELSE [st EXCEPT !.pc = "propagated", !.ncalls = @ + 1, !.err = out.e]

\* one iteration in which the backend answers with `reply`
GeminiReply(reply) ==
    /\ llm.pc = "call"
    /\ llm' = [Iteration(llm, CallAndValidate(reply)) EXCEPT
                  !.raw = <<reply>>,
                  !.coerced = IF reply.parses THEN <<coerce_to_object(reply.data)>>
                              ELSE <<>>]
    /\ UNCHANGED <<progVars, bk, dq, hist, cli, ig>>

\* one iteration in which the backend call raises an exception of class `type`
GeminiRaise(type) ==
    /\ llm.pc = "call"
    /\ llm' = [Iteration(llm, [raised |-> TRUE, e |-> [type |-> type, msg |-> "backend"],
                               res |-> NoObject]) EXCEPT
                  !.raw = <<>>, !.coerced = <<>>]
    /\ UNCHANGED <<progVars, bk, dq, hist, cli, ig>>

LlmStep ==
    \/ \E reply \in GeminiReplies : GeminiReply(reply)
    \/ \E type \in GeminiErrors : GeminiRaise(type)

NextLlm ==
    \/ \E attempts \in 1 .. MaxAttempts : SummarizeStart(attempts)
    \/ LlmStep

SpecLlm == Init /\ [][NextLlm]_vars

\* the backend call of an iteration returns or raises: the loop is sequential
\* and nothing else is scheduled between its iterations
SpecLlmLive == SpecLlm /\ WF_vars(LlmStep)

\* ------------------------------------------------------------ data.query

\* lines 356-363: the parameters are read; int() of a limit_rows that is not
\* a number and a missing dataset_id or question raise to the caller
DataQueryBegin(params) ==
    /\ dq.pc = "off"
    /\ dq' = IF LimitRows(params.limit_rows).raised
             THEN [NoQuery EXCEPT !.pc = "raised", !.params = params, !.err = "ValueError"]
             ELSE IF params.dataset_id = "" \/ params.question = <<>>
             THEN [NoQuery EXCEPT !.pc = "raised", !.params = params,
                                  !.limit_rows = LimitRows(params.limit_rows).n,
                                  !.err = "ValueError"]
             ELSE [NoQuery EXCEPT !.pc = "load", !.params = params,
                                  !.limit_rows = LimitRows(params.limit_rows).n]
    /\ UNCHANGED <<progVars, bk, llm, hist, cli, ig>>

\* the handler of line 448: whatever was raised inside the try block
FailRaises(st, stage, e) == [st EXCEPT !.pc = "raised", !.failed = stage, !.err = e]

Fail(st, stage, e) ==
    [st EXCEPT !.pc = "returned", !.failed = stage,
               !.result = Degraded(st.params.question, e)]

\* phase 1: parquet_path_for / read_parquet succeed with the sheet's columns
DataLoad(cols) ==
    /\ dq.pc = "load"
    /\ dq' = [dq EXCEPT !.pc = "sql", !.cols = cols]
    /\ UNCHANGED <<progVars, bk, llm, hist, cli, ig>>

\* phase 1 raises (unknown dataset, unreadable file)
DataLoadFail ==
    /\ dq.pc = "load"
    /\ dq' = Fail(dq, "load", "FileNotFoundError")
    /\ UNCHANGED <<progVars, bk, llm, hist, cli, ig>>

\* phase 2: _nl2sql, then _sanitize_sql
GenerateSql(use_llm, reply) ==
    LET generated == nl2sql(dq.params.question, dq.cols, use_llm, reply)
    IN  /\ dq.pc = "sql"
        /\ dq' = IF sanitize_sql(generated).raised
                 THEN [Fail(dq, "sanitize", "Only SELECT/WITH queries are allowed.")
                          EXCEPT !.generated = generated, !.rejected = TRUE]
                 ELSE [dq EXCEPT !.pc = "exec", !.generated = generated,
                                 !.sql = sanitize_sql(generated).s]
        /\ UNCHANGED <<progVars, bk, llm, hist, cli, ig>>

Explain(sql) == [explain |-> TRUE, sql |-> sql]
Execute(sql) == [explain |-> FALSE, sql |-> sql]

\* phase 3: EXPLAIN, the fallback statement when EXPLAIN fails, the query
\* itself (nrows rows come back) and the cut to limit_rows
ExecuteQuery(explain_ok, exec_ok, nrows) ==
    LET sql == IF explain_ok THEN dq.sql ELSE SafeFallback(dq.limit_rows)
        ran == [dq EXCEPT !.sql = sql,
                          !.executed = <<Explain(dq.sql), Execute(sql)>>]
    IN  /\ dq.pc = "exec"
        /\ dq' = IF exec_ok
                 THEN [ran EXCEPT !.pc = "render",
                                  !.rows = IF nrows > dq.limit_rows
                                           THEN dq.limit_rows ELSE nrows]
                 ELSE Fail(ran, "execute", "duckdb.Error")
        /\ UNCHANGED <<progVars, bk, llm, hist, cli, ig>>

\* duckdb.connect() or con.register raise before anything is executed
ConnectFail ==
    /\ dq.pc = "exec"
    /\ dq' = Fail(dq, "connect", "duckdb.Error")
    /\ UNCHANGED <<progVars, bk, llm, hist, cli, ig>>

\* phases 4 and 5: chart ("png", "table": no chart for this shape, "fail"),
\* _to_table_md, _insights ("llm": the model's bullets, "canned": its
\* fallback)
RenderResult(chart, table_ok, insights) ==
    /\ dq.pc = "render"
    /\ dq' = IF ~table_ok
             THEN Fail(dq, "table", "KeyError")
             ELSE [dq EXCEPT
                     !.pc = "returned",
                     !.failed = IF chart = "fail" THEN "chart"
                                ELSE IF insights = "canned" THEN "insights" ELSE "",
                     !.result = [chart_png_path |-> IF chart = "png" THEN "out/images/charts/ds1/h.png"
                                                    ELSE "",
                                 table_md |-> "| table |",
                                 insights |-> IF insights = "llm" THEN <<"b1", "b2">>
                                              ELSE <<"Answered", "Found results">>,
                                 sql |-> dq.sql]]
    /\ UNCHANGED <<progVars, bk, llm, hist, cli, ig>>

RowCounts == {0, 3}

NextData ==
    \/ \E params \in QueryParams : DataQueryBegin(params)
    \/ \E cols \in Schemas : DataLoad(cols)
    \/ DataLoadFail
    \/ \E use_llm \in BOOLEAN, reply \in {<<>>} \cup { <<r>> : r \in LlmSqls } :
          GenerateSql(use_llm, reply)
    \/ \E explain_ok \in BOOLEAN, exec_ok \in BOOLEAN, nrows \in RowCounts :
          ExecuteQuery(explain_ok, exec_ok, nrows)
    \/ ConnectFail
    \/ \E chart \in {"png", "table", "fail"}, table_ok \in BOOLEAN,
          insights \in {"llm", "canned"} : RenderResult(chart, table_ok, insights)

SpecData == Init /\ [][NextData]_vars

Last(q) == q[Len(q)]
IsSlideCall(e) == e.method = "slides.create"
IsImageCall(e) == e.method = "image.generate"
IsLlmCall(e) == e.method = "llm.summarize"
SlideCalls == SelectSeq(log, IsSlideCall)
ImageCalls == SelectSeq(log, IsImageCall)
LlmCalls == SelectSeq(log, IsLlmCall)

\* C1: a slides.create call whose client_request_id is already in the
\* idempotency store returns the stored presentation_id, slide_id and url with
\* reused_existing = true, makes no backend call (credentials, presentation,
\* upload, slide) and leaves the store as it was.
C1_HitReturnsStored ==
    [][ (ndirect' = ndirect + 1 /\ log'[1].req_id # "" /\ log'[1].req_id \in DOMAIN idem)
        => /\ log'[1].res.ok
           /\ log'[1].res.reused_existing
           /\ log'[1].res.presentation_id = idem[log'[1].req_id].presentation_id
           /\ log'[1].res.slide_id = idem[log'[1].req_id].slide_id
           /\ log'[1].res.url = idem[log'[1].req_id].url
           /\ log'[1].calls = ZeroCalls
           /\ calls' = ZeroCalls
           /\ nextId' = nextId
           /\ idem' = idem ]_vars

\* a second call with a key that the first call stored has been answered from the store
C1_Witness ==
    /\ ndirect >= 2
    /\ log # <<>>
    /\ log[1].res.reused_existing
    /\ log[1].req_id \in DOMAIN idem
    /\ log[1].params.image_url # ""

\* C3: slides.create writes the entry of its client_request_id if and only if
\* presentation creation, image resolution and slide creation all succeeded, the
\* entry written is the DeckRef it returns, and a call that raises leaves the
\* store exactly as it was.
C3_RecordIffSucceeded ==
    [][ (ndirect' = ndirect + 1 /\ log'[1].req_id # "")
        => /\ (idem' # idem) <=>
                 (log'[1].stages.pres /\ log'[1].stages.image /\ log'[1].stages.slide)
           /\ (idem' # idem) =>
                 /\ log'[1].res.ok
                 /\ log'[1].req_id \notin DOMAIN idem
                 /\ DOMAIN idem' = DOMAIN idem \cup {log'[1].req_id}
                 /\ \A k \in DOMAIN idem : idem'[k] = idem[k]
                 /\ idem'[log'[1].req_id] =
                       [presentation_id |-> log'[1].res.presentation_id,
                        slide_id |-> log'[1].res.slide_id,
                        url |-> log'[1].res.url]
           /\ ~log'[1].res.ok => idem' = idem ]_vars

\* a call with a key failed after the presentation was created (the store does not
\* hold its key), and an earlier call had written an entry
C3_Witness ==
    /\ log # <<>>
    /\ log[1].req_id # ""
    /\ ~log[1].res.ok
    /\ log[1].stages.pres
    /\ log[1].req_id \notin DOMAIN idem
    /\ DOMAIN idem # {}


\* ------------------------------------------------ claims about orchestrate

\* the i-th section of the summarizer answer, in the answer's own order
AnswerTitle(i) ==
    IF s[1].has_list THEN s[1].sections[i].title ELSE s[1].title
AnswerLen == IF s[1].has_list THEN Len(s[1].sections) ELSE 1

\* the running call repeats the previous one: same client_request_id, report and
\* slide_count, both with use_cache, the previous one returned, and no cache
\* entry had expired when the running call was entered
RepeatsPrevious ==
    /\ pc = "done"
    /\ prev.valid
    /\ prev.status = "done"
    /\ prev.run.req_id = run.req_id
    /\ prev.run.report = run.report
    /\ prev.run.slide_count = run.slide_count
    /\ prev.run.use_cache
    /\ run.use_cache
    /\ run.entries_fresh

\* C2 (as stated): repeating orchestrate with the same client_request_id after a
\* run that succeeded (use_cache on, entries unexpired) returns the same
\* presentation_id and url, every slides.create is answered reused_existing, and
\* no backend call at all is made (no llm.summarize, image.generate, or Slides call).
C2_Original ==
    RepeatsPrevious =>
        /\ result.presentation_id = prev.result.presentation_id
        /\ result.url = prev.result.url
        /\ \A j \in 1 .. Len(SlideCalls) : SlideCalls[j].res.reused_existing
        /\ calls = ZeroCalls
        /\ LlmCalls = <<>>
        /\ ImageCalls = <<>>

\* C4: for slide_count in 1..10 a call that returns has
\* created_slides = min(slide_count, len(sections)), which is also the number of
\* slides.create calls answered; it is at most 10; it is 0 exactly when the
\* summarizer answered with an empty sections list, and then the ids and url are
\* null and no image.generate or slides.create call was issued.
C4_BoundedSlides ==
    (pc = "done" /\ run.slide_count \in MinSlides .. MaxSlides) =>
        /\ result.created_slides = Min(run.slide_count, AnswerLen)
        /\ result.created_slides <= MaxSlides
        /\ Len(SlideCalls) = result.created_slides
        /\ (result.created_slides = 0) <=> (s[1].has_list /\ s[1].sections = <<>>)
        /\ result.created_slides = 0 =>
              /\ result.presentation_id = NoId
              /\ result.url = NoUrl
              /\ result.first_slide_id = NoSlide
              /\ SlideCalls = <<>>
              /\ ImageCalls = <<>>
        /\ result.created_slides >= 1 => result.presentation_id # NoId

\* fewer slides were asked for than the summarizer gave sections
C4_Witness ==
    /\ pc = "done"
    /\ run.slide_count = 1
    /\ AnswerLen = 2
    /\ result.created_slides = 1

\* C5 (as stated): within one request exactly one presentation is created: the
\* call for slide i > 1 carries the presentation_id returned for slide 1,
\* slides.create creates a presentation only when presentation_id is absent, and
\* every slide created belongs to the returned presentation.
C5_OnePresentation ==
    (pc = "done" /\ result.created_slides >= 1) =>
        /\ calls.pres <= 1
        /\ \A j \in 1 .. Len(SlideCalls) :
              /\ j > 1 => SlideCalls[j].params.presentation_id = SlideCalls[1].res.presentation_id
              /\ SlideCalls[j].stages.pres => SlideCalls[j].params.presentation_id = NoId
              /\ SlideCalls[j].res.presentation_id = result.presentation_id

\* C6: the slides.create calls of a request are issued in section order, one at
\* a time: the j-th call is built from the j-th section of the summarizer answer
\* under the key "<req_id>#s<j>", and a call is followed by another only if it
\* was answered successfully.
C6_InOrder ==
    \A j \in 1 .. Len(SlideCalls) :
        /\ SlideCalls[j].idx = j
        /\ j <= AnswerLen
        /\ SlideCalls[j].params.title = OrStr(AnswerTitle(j), "Untitled")
        /\ SlideCalls[j].req_id = run.req_id \o "#s" \o ToString(j)
        /\ j < Len(SlideCalls) => SlideCalls[j].out = "ok"

\* two slides built from two different sections
C6_Witness ==
    /\ pc = "done"
    /\ Len(SlideCalls) = 2
    /\ SlideCalls[1].params.title = "Untitled"
    /\ SlideCalls[2].params.title = "Acme"

\* C7 (as stated): whatever way image.generate fails for a section (error answer
\* or no answer in time), orchestrate goes on to slides.create for that section
\* with no image.
C7_ImageFailureSwallowed ==
    (log # <<>> /\ IsImageCall(Last(log)) /\ Last(log).out # "ok") =>
        /\ pc = "slide"
        /\ img = NoImage

\* C8 (as stated): when slides.create fails for slide i > 1, orchestrate returns
\* the deck built so far with created_slides = i - 1 and the ids of slide 1.
C8_PartialDeckReturned ==
    (log # <<>> /\ IsSlideCall(Last(log)) /\ Last(log).out # "ok" /\ Last(log).idx > 1) =>
        /\ pc = "done"
        /\ result.created_slides = Last(log).idx - 1
        /\ result.presentation_id = created.presentation_id
        /\ result.url = created.url
        /\ result.first_slide_id = created.first_slide_id

\* C9, state part: an image.generate or slides.create call is in the log only
\* once the summarizer result is available, and after a failed llm.summarize the
\* call has raised having issued nothing else.
C9_SummaryFirst ==
    /\ (ImageCalls # <<>> \/ SlideCalls # <<>>) => s # <<>>
    /\ \A j \in 1 .. Len(log) : IsLlmCall(log[j]) => j = 1
    /\ (log # <<>> /\ IsLlmCall(log[1]) /\ log[1].out # "ok") =>
          /\ pc = "raised"
          /\ Len(log) = 1
          /\ s = <<>>
          /\ calls = ZeroCalls

\* C9, step part: the step in which llm.summarize fails writes neither cache
\* nor the idempotency store.
C9_FailureWritesNothing ==
    (pc = "summarize" /\ Len(log') = Len(log) + 1 /\ Last(log').out # "ok") =>
        /\ llmCache' = llmCache
        /\ imgCache' = imgCache
        /\ idem' = idem

\* C9: no image.generate or slides.create call is issued before the summarizer
\* result (fresh or cached) is available; if llm.summarize fails, orchestrate
\* raises, no image or slide call has been issued and nothing is written to the
\* caches.
C9_SummarizerFirstAndFatal == []C9_SummaryFirst /\ [][C9_FailureWritesNothing]_vars

\* llm.summarize failed with the cache enabled
C9_Witness ==
    /\ pc = "raised"
    /\ run.use_cache
    /\ Len(log) = 1
    /\ IsLlmCall(log[1])
    /\ log[1].out = "timeout"

\* ------------------------------------------- claims about orchestrate_many

\* C10, state part: a batch that returned has one record per item, in input order.
C10_OnePerItem ==
    /\ Len(batch.results) <= Len(batch.items)
    /\ batch.pc = "done" => Len(batch.results) = Len(batch.items)
    /\ \A i \in 1 .. Len(batch.results) :
          /\ batch.results[i].name = batch.items[i][1]
          /\ batch.results[i].request_id = StableRequestId(batch.items[i][2])

\* C10, step part: the record appended for an item whose orchestrate call raised
\* has ok = false, the message as error and created_slides = 0; the one for a call
\* that returned has ok = true and the call's result; the batch goes on either way.
C10_RecordMatchesOutcome ==
    (batch.pc = "running" /\ Len(batch'.results) = Len(batch.results) + 1) =>
        /\ batch'.pc = "running"
        /\ pc = "raised" =>
              /\ ~Last(batch'.results).ok
              /\ Last(batch'.results).error = err.msg
              /\ Last(batch'.results).error # ""
              /\ Last(batch'.results).created_slides = 0
              /\ Last(batch'.results).url = NoUrl
        /\ pc = "done" =>
              /\ Last(batch'.results).ok
              /\ Last(batch'.results).created_slides = result.created_slides
              /\ Last(batch'.results).url = result.url

\* C10: orchestrate_many returns exactly one record per item, in input order; an
\* item whose orchestrate call raises yields ok = false with the message and
\* created_slides = 0, and the later items are still processed.
C10_BatchNeverRaises == []C10_OnePerItem /\ [][C10_RecordMatchesOutcome]_vars

\* the first item failed and the second was still processed and succeeded
C10_Witness ==
    /\ batch.pc = "done"
    /\ Len(batch.results) = 2
    /\ ~batch.results[1].ok
    /\ batch.results[2].ok
    /\ batch.results[2].created_slides >= 1

\* ------------------------------------- claims about concurrent slides.create

\* C11 (as stated): slides.create calls with different client_request_ids running
\* in separate server processes over the same idempotency file never lose each
\* other's entries: once both have completed successfully the store holds both
\* keys, each with the DeckRef its call returned.
C11_NoLostEntries ==
    \A v \in Procs, w \in Procs :
        ( /\ v # w
          /\ workers[v].pc = "done"
          /\ workers[w].pc = "done"
          /\ workers[v].p.client_request_id # workers[w].p.client_request_id )
        => /\ workers[v].p.client_request_id \in DOMAIN idem
           /\ idem[workers[v].p.client_request_id] =
                 [presentation_id |-> workers[v].res.presentation_id,
                  slide_id |-> workers[v].res.slide_id,
                  url |-> workers[v].res.url]

\* ------------------------------------------------ claims about the server

\* the lines read so far that are not blank, in the order read
IsNonBlank(line) == line.kind \notin {"empty", "space"}
NonBlankRead == SelectSeq(srv.rd, IsNonBlank)

\* the id the response to a line has to carry
ExpectedId(line) == IF line.kind = "object" /\ line.req.has_id THEN line.req.id ELSE Null

\* the server process takes the step that ends the handling of the current line
LineHandled == srv.pc = "line" /\ srv'.pc # "line"

\* C12: every response written for a parsed request carries the request's id
\* verbatim (null when the request has id null or no id member) and has exactly
\* one of the members result and error.
C12_IdAndOneOf ==
    \A k \in 1 .. Len(srv.out) :
        /\ ("result" \in srv.out[k].members) # ("error" \in srv.out[k].members)
        /\ "id" \in srv.out[k].members
        /\ srv.out[k].id = ExpectedId(NonBlankRead[k])

\* a successful call answered under its string id, and a request without an id
\* member answered with an error under id null
C12_Witness ==
    /\ Len(srv.out) >= 2
    /\ srv.out[1].id = JStr("a")
    /\ "result" \in srv.out[1].members
    /\ ~NonBlankRead[2].req.has_id
    /\ NonBlankRead[2].kind = "object"
    /\ srv.out[2].id = Null
    /\ "error" \in srv.out[2].members

\* a request line the framing allows: a JSON object whose method, if it has
\* one, is null or a string
IsValidRequest(line) ==
    line.kind = "object" /\ (line.req.has_method => line.req.method[1] \in {"null", "str"})

\* C13: for a sequence of valid request lines the server writes exactly one
\* response per request, in the order of the requests and with the matching id,
\* and the response to a request is written before the next line is read.
C13_OneResponsePerRequestInOrder ==
    (\A k \in 1 .. Len(srv.rd) : IsValidRequest(srv.rd[k])) =>
        /\ Len(srv.out) = Len(srv.rd) - (IF srv.pc = "line" THEN 1 ELSE 0)
        /\ \A k \in 1 .. Len(srv.out) : srv.out[k].id = GetId(srv.rd[k].req)

\* three requests with different ids were answered one after the other
C13_Witness ==
    /\ Len(srv.rd) = 3
    /\ \A k \in 1 .. 3 : IsValidRequest(srv.rd[k])
    /\ Len(srv.out) = 3
    /\ srv.out[1].id = JNum(7)
    /\ srv.out[2].id = JStr("a")
    /\ srv.out[3].id = Null
    /\ Len(srv.calls) = 2

\* the method of the request is missing, empty, or not a name of the registry
MethodUnknown(req, tools) ==
    \/ ~req.has_method
    \/ req.method = JStr("")
    \/ ~InRegistry(req.method, tools)

\* C14 (as stated): a request whose method is missing, empty or not in the
\* registry is answered with error code -32601 under the request's id, and no
\* tool handler is invoked for it.
C14_MethodNotFound ==
    [][ (LineHandled /\ srv.cur.kind = "object" /\ MethodUnknown(srv.cur.req, srv.tools))
        => /\ Len(srv'.out) = Len(srv.out) + 1
           /\ srv'.out[Len(srv'.out)].error.code = -32601
           /\ "error" \in srv'.out[Len(srv'.out)].members
           /\ srv'.out[Len(srv'.out)].id = GetId(srv.cur.req)
           /\ srv'.calls = srv.calls ]_vars

\* C15: when a registered tool handler raises, the response written is the
\* error -32000 with the message "<type>: <message>" under the request's id; the
\* exception does not leave _handle_request and the server goes on to read the
\* next line.
C15_ToolErrorAnswered ==
    [][ (LineHandled /\ Len(srv'.calls) = Len(srv.calls) + 1
           /\ srv'.calls[Len(srv'.calls)].outcome.raised)
        => /\ srv'.out = Append(srv.out,
                 [members |-> {"jsonrpc", "id", "error"},
                  id |-> GetId(srv.cur.req),
                  error |-> [code |-> -32000,
                             message |-> srv'.calls[Len(srv'.calls)].outcome.type \o ": "
                                         \o srv'.calls[Len(srv'.calls)].outcome.msg],
                  result |-> Null])
           /\ srv'.pc = "read"
           /\ srv'.code = -1 ]_vars

\* a tool raised for the first request and the second request was still served
C15_Witness ==
    /\ Len(srv.calls) = 2
    /\ srv.calls[1].outcome.type = "ValueError"
    /\ ~srv.calls[2].outcome.raised
    /\ Len(srv.out) = 2
    /\ srv.out[1].error.code = -32000
    /\ "result" \in srv.out[2].members

\* C16: a non-blank line that is not valid JSON gets exactly one response, the
\* error -32700 with id null, no tool handler is invoked and the server goes on
\* to the next line; an empty or whitespace-only line gets no response.
C16_ParseErrorAndBlank ==
    [][ LineHandled =>
          /\ srv.cur.kind = "garbage" =>
                /\ Len(srv'.out) = Len(srv.out) + 1
                /\ \A k \in 1 .. Len(srv.out) : srv'.out[k] = srv.out[k]
                /\ srv'.out[Len(srv'.out)].error.code = -32700
                /\ srv'.out[Len(srv'.out)].members = {"jsonrpc", "id", "error"}
                /\ srv'.out[Len(srv'.out)].id = Null
                /\ srv'.calls = srv.calls
                /\ srv'.pc = "read"
          /\ srv.cur.kind \in {"empty", "space"} =>
                /\ srv'.out = srv.out
                /\ srv'.calls = srv.calls
                /\ srv'.pc = "read" ]_vars

\* a whitespace-only line went unanswered, a garbage line was answered with the
\* parse error, and the request after them was served
C16_Witness ==
    /\ Len(srv.rd) = 3
    /\ srv.rd[1].kind = "space"
    /\ srv.rd[2].kind = "garbage"
    /\ srv.rd[3].kind = "object"
    /\ Len(srv.out) = 2
    /\ srv.out[1].error.code = -32700
    /\ srv.out[1].id = Null
    /\ "result" \in srv.out[2].members

\* C17, state part: when readline() has returned end of input the server has
\* exited with status 0, nothing is left unread, and every non-blank line read
\* before has its response.
C17_ExitZeroAtEOF ==
    srv.eof =>
        /\ srv.pc = "exited"
        /\ srv.code = 0
        /\ srv.pipe = <<>>
        /\ Len(srv.out) = Len(NonBlankRead)

\* C17, step part: after end of input nothing more is read or written.
C17_NothingAfterEOF == srv.eof => (srv'.rd = srv.rd /\ srv'.out = srv.out /\ srv'.pc = "exited")

\* C17: once the client has closed the input the server terminates; when it
\* does so on reading end of input its status is 0 and every request read before
\* has been answered; it reads nothing after end of input.
C17_TerminatesAtEOF ==
    /\ []C17_ExitZeroAtEOF
    /\ [][C17_NothingAfterEOF]_vars
    /\ (srv.closed /\ srv.pc \in {"read", "line"}) ~> (srv.pc = "exited")

\* the server exited with status 0 after answering the requests sent before the
\* input was closed
C17_Witness ==
    /\ srv.eof
    /\ srv.code = 0
    /\ Len(srv.rd) = 3
    /\ Len(srv.out) = 2
    /\ Len(srv.calls) >= 1

\* ------------------------------------------------- claims about the caches

\* the running call follows a call that returned, both with use_cache, over the
\* same report and with the same clamped slide_count, and no cache entry had
\* expired when the running call was entered
SecondCachedCall ==
    /\ pc \notin {"idle", "summarize"}
    /\ prev.valid
    /\ prev.status = "done"
    /\ prev.run.use_cache
    /\ run.use_cache
    /\ prev.run.report = run.report
    /\ Clamp(prev.run.slide_count) = Clamp(run.slide_count)
    /\ run.entries_fresh

\* C18: with use_cache, a second orchestrate call with the same report, model
\* and clamped slide_count, made within the TTL of the entry the first successful
\* call stored, issues no llm.summarize call and plans its slides from the cached
\* summarizer result.
C18_SummaryFromCache ==
    SecondCachedCall =>
        /\ LlmCalls = <<>>
        /\ CurKey \in DOMAIN llmCache
        /\ s = <<llmCache[CurKey].value>>
        /\ pc = "done" => result.created_slides = Actual(run.slide_count,
                                                       Normalize(llmCache[CurKey].value))

\* the second call asked for another slide_count with the same clamped value and
\* built its slide from the cached summary
C18_Witness ==
    /\ SecondCachedCall
    /\ pc = "done"
    /\ prev.run.slide_count # run.slide_count
    /\ result.created_slides = 1
    /\ LlmCalls = <<>>
    /\ Len(SlideCalls) = 1

\* C19: the summarizer cache key depends on max_sections: two requests that
\* differ only in the max_sections sent to llm.summarize (slide_count clamped to
\* 1..10) have different keys, and the max_sections sent to the tool is the one
\* encoded in the key.
C19_KeyCarriesMaxSections ==
    /\ \A c1 \in SlideCounts, c2 \in SlideCounts :
          (Clamp(c1) # Clamp(c2)) =>
              LlmCacheKey(run.report, LlmModel, c1) # LlmCacheKey(run.report, LlmModel, c2)
    /\ (pc # "idle" /\ prev.valid /\ prev.run.report = run.report
          /\ Clamp(prev.run.slide_count) # Clamp(run.slide_count)) =>
          LlmCacheKey(prev.run.report, LlmModel, prev.run.slide_count) # CurKey
    /\ \A j \in 1 .. Len(log) :
          IsLlmCall(log[j]) =>
             /\ log[j].params.max_sections = CurKey[2]
             /\ log[j].params.max_sections \in MinSlides .. MaxSlides
             /\ (log[j].out = "ok" /\ run.use_cache) => CurKey \in DOMAIN llmCache

\* a second call with another max_sections missed the entry of the first and
\* called the summarizer with the value its own key carries
C19_Witness ==
    /\ pc = "done"
    /\ prev.valid
    /\ prev.status = "done"
    /\ prev.run.use_cache
    /\ run.use_cache
    /\ run.entries_fresh
    /\ Clamp(prev.run.slide_count) = 1
    /\ Clamp(run.slide_count) = 2
    /\ Len(LlmCalls) = 1
    /\ LlmCalls[1].params.max_sections = 2
    /\ Cardinality(DOMAIN llmCache) = 2

\* the image cache entry of the current section's prompt was not stored by the
\* running call: it is that of an image.generate that succeeded in an earlier call
StoredByEarlierCall ==
    /\ CacheGet(imgCache, CurImageKey, run.ttl, now) # <<>>
    /\ \A j \in 1 .. Len(log) :
          (IsImageCall(log[j]) /\ log[j].out = "ok") =>
              SectionAt(Sections, log[j].idx).image_prompt # CurSection.image_prompt

\* C20, step part (as stated): with use_cache and unexpired entries, a section
\* whose image was generated successfully by an earlier call gets a cache hit: no
\* image.generate call is issued for it.
C20_ImageHit ==
    (pc = "image" /\ pc' # "image" /\ run.use_cache /\ CurSection.image_prompt # ""
        /\ StoredByEarlierCall)
    => (log' = log /\ pc' = "slide")

\* C20, state part (as stated): slides.create is still called for every section.
C20_DeckStillCreated ==
    (pc = "done" /\ run.use_cache) => Len(SlideCalls) = result.created_slides

\* C20 (as stated): a second orchestrate call over the same report, with
\* use_cache and unexpired entries, gets an image cache hit for every section
\* whose image generation succeeded in the first call, while slides.create is
\* still called for every section.
C20_ImageHitsDeckCreated == [][C20_ImageHit]_vars /\ []C20_DeckStillCreated

\* ------------------------------------------------------------ C21, C22

RECURSIVE SumSeq(_)
SumSeq(q) == IF q = <<>> THEN 0 ELSE q[1] + SumSeq(Tail(q))

AllRetryable(q) ==
    \A k \in 1 .. Len(q) : q[k].status \in RetryStatuses /\ (bk.variant = "slides" => q[k].http)

\* the delays base*2^i for i = 0 .. attempts-2
ExpectedSleeps(attempts, base) == [k \in 1 .. attempts - 1 |-> base * Pow2(k - 1)]

\* C21: when every invocation failed with a retryable error and the primitive
\* has raised, the callable was invoked exactly `attempts` times, the sleeps
\* are base*2^i for i = 0..attempts-2 (none after the last attempt), the error
\* raised is the last one thrown, and for attempts=4, base=0.6 the sleeps add
\* up to 4.2 s; when an invocation succeeded the value is returned at once:
\* one sleep per failed invocation before it and none after it.
C21_BackoffEnvelope ==
    /\ (bk.pc = "raised" /\ AllRetryable(bk.thrown)) =>
          /\ bk.ncalls = bk.attempts
          /\ bk.sleeps = ExpectedSleeps(bk.attempts, bk.base)
          /\ bk.err = bk.thrown[Len(bk.thrown)]
          /\ (bk.attempts = DefaultAttempts /\ bk.base = DefaultBase
                => SumSeq(bk.sleeps) = 42)
    /\ (bk.pc = "returned" /\ bk.ncalls > 0) =>
          /\ bk.value \in Values
          /\ bk.ncalls = Len(bk.thrown) + 1
          /\ Len(bk.sleeps) = Len(bk.thrown)
          /\ bk.ncalls <= bk.attempts

\* four retryable failures with the default arguments
C21_Witness ==
    /\ bk.pc = "raised"
    /\ bk.attempts = DefaultAttempts /\ bk.base = DefaultBase
    /\ AllRetryable(bk.thrown)
    /\ bk.sleeps = <<6, 12, 24>>

\* C22: an iteration that fails is followed by a sleep and a further
\* invocation if and only if attempts remain and the error is an HTTP error
\* with status in {429, 500, 502, 503, 504}; in every other case the error
\* thrown is re-raised by that iteration, with no sleep added.
C22_Step ==
    (bk.pc = "call" /\ Len(bk'.thrown) = Len(bk.thrown) + 1) =>
        LET e == bk'.thrown[Len(bk'.thrown)]
            retry == /\ bk.i < bk.attempts - 1
                     /\ e.status \in {429, 500, 502, 503, 504}
                     /\ (bk.variant = "slides" => e.http)
        IN  IF retry
            THEN /\ bk'.pc = "call"
                 /\ Len(bk'.sleeps) = Len(bk.sleeps) + 1
            ELSE /\ bk'.pc = "raised"
                 /\ bk'.err = e
                 /\ bk'.sleeps = bk.sleeps

LlmFinal == {"returned", "raised", "propagated"}

C23_Bounded ==
    /\ llm.ncalls <= llm.attempts
    /\ llm.pc = "raised" =>
          /\ llm.ncalls = llm.attempts
          /\ llm.err = [type |-> "RuntimeError",
                        msg |-> "LLM structured output failed after "
                                \o ToString(llm.attempts) \o " attempts: "
                                \o llm.last_err.type \o ": " \o llm.last_err.msg]
          /\ llm.last_err # NoErr

C23_Step ==
    /\ llm.pc \in LlmFinal => llm'.ncalls = llm.ncalls
    /\ (llm.pc = "call" /\ llm'.ncalls = llm.ncalls + 1 /\ llm'.raw # <<>>) =>
          LET reply == llm'.raw[1]
              good == /\ reply.parses
                      /\ \/ reply.data[1] = "obj" /\ reply.data[2].valid
                         \/ /\ reply.data[1] = "arr" /\ reply.data[2] # <<>>
                            /\ reply.data[2][1][1] = "obj" /\ reply.data[2][1][2].valid
          IN  IF good THEN llm'.pc = "returned"
              ELSE IF llm.ncalls + 1 < llm.attempts THEN llm'.pc = "call"
              ELSE llm'.pc = "raised"

\* C23: the retry loop invokes the backend at most `attempts` times; the first
\* result that parses and validates is returned with no further invocation; a
\* parse or validation failure is retried while attempts remain; after
\* `attempts` consecutive failures the loop raises a failure naming the last
\* error; and every call of the loop ends.
C23_RetryLoopTerminates ==
    /\ []C23_Bounded
    /\ [][C23_Step]_vars
    /\ (llm.pc = "call" ~> llm.pc \in LlmFinal)

\* three failures with the default attempts=3
C23_Witness ==
    /\ llm.pc = "raised"
    /\ llm.attempts = LlmAttempts
    /\ llm.ncalls = LlmAttempts
    /\ llm.last_err.type = "ValidationError"

IsObject(v) == v[1] = "obj"

\* C24: the normalizer accepts an object (returned as is) or an array of
\* exactly one object (unwrapped) and rejects every other value, among them
\* an array of length other than 1.
C24_OneOrList ==
    llm.coerced # <<>> =>
        LET data == llm.raw[1].data
            out == llm.coerced[1]
        IN  /\ ~out.raised <=>
                  \/ IsObject(data)
                  \/ data[1] = "arr" /\ Len(data[2]) = 1 /\ IsObject(data[2][1])
            /\ (~out.raised /\ IsObject(data)) => out.value = data
            /\ (~out.raised /\ ~IsObject(data)) => out.value = data[2][1]

\* ------------------------------------------------------- C25 .. C29

WriteWords == {"INSERT", "UPDATE", "DELETE", "DROP", "ALTER", "CREATE", "REPLACE", "MERGE"}

\* the statement, comments stripped, holds one of the eight words as a whole
\* word in any letter case
HasWriteWord(sql) ==
    \E i \in 1 .. Len(StripComments(sql)) :
        /\ StripComments(sql)[i].k = "w"
        /\ Upper(StripComments(sql)[i].t) \in WriteWords

HasLimit(sql) ==
    \E i \in 1 .. Len(StripComments(sql)) :
        /\ StripComments(sql)[i].k = "w"
        /\ Upper(StripComments(sql)[i].t) = "LIMIT"

\* C25: no statement handed to the database, by EXPLAIN or by the final
\* execute, holds INSERT, UPDATE, DELETE, DROP, ALTER, CREATE, REPLACE or MERGE
\* as a whole word after comment stripping, wherever the SQL came from; a
\* generated statement that holds one is rejected before anything is executed.
C25_NoWriteStatementExecuted ==
    /\ \A i \in 1 .. Len(dq.executed) : ~HasWriteWord(dq.executed[i].sql)
    /\ (dq.generated # <<>> /\ HasWriteWord(dq.generated)) =>
          dq.rejected /\ dq.executed = <<>>

\* the model answered SELECT 1; drop table t (LIMIT 5000 was appended), and
\* nothing was executed
C25_Witness ==
    /\ dq.pc = "returned"
    /\ dq.generated = Words(<<"SELECT", "1", ";", "drop", "table", "t", "LIMIT", "5000">>)
    /\ dq.rejected
    /\ dq.executed = <<>>

\* C26: every statement data.query executes (the final execute, EXPLAIN left
\* aside) contains a LIMIT clause, whatever the question shape, and at most
\* limit_rows rows are returned.
C26_AlwaysLimited ==
    /\ \A i \in 1 .. Len(dq.executed) :
          ~dq.executed[i].explain => HasLimit(dq.executed[i].sql)
    /\ dq.pc \in {"render", "returned"} => dq.rows <= dq.limit_rows

\* C27: when the sanitizer rejects the generated SQL, data.query executes
\* SELECT * FROM t LIMIT 50 and returns that statement in the sql field.
C27_FallbackAfterRejection ==
    (dq.pc = "returned" /\ dq.rejected) =>
        /\ dq.result.sql = Words(<<"SELECT", "*", "FROM", "t", "LIMIT", "50">>)
        /\ \E i \in 1 .. Len(dq.executed) :
              dq.executed[i] = [explain |-> FALSE,
                                sql |-> Words(<<"SELECT", "*", "FROM", "t", "LIMIT", "50">>)]

\* C28: for the columns company (text) and total (double), the question
\* "top 5 companies by total" is synthesized as
\* SELECT * FROM t ORDER BY total DESC LIMIT 5.
C28_TopFiveByTotal ==
    ( /\ dq.generated # <<>>
      /\ dq.params.question = <<"top", "5", "companies", "by", "total">>
      /\ ColNames(dq.cols) = <<"company", "total">> ) =>
        dq.generated = Words(<<"SELECT", "*", "FROM", "t", "ORDER", "BY", "total", "DESC",
                               "LIMIT", "5">>)

QueryEnded == dq.pc \in {"returned", "raised"}

\* what a call that ended owes its caller: no exception; a degraded result
\* after a failure of load, SQL generation, sanitization, execution or table
\* rendering; the executed sql, with a null chart or canned insights, after a
\* failure of chart rendering or insights generation only
DegradesGracefully ==
    /\ dq.pc = "returned"
    /\ dq.failed \in {"load", "sanitize", "connect", "execute", "table"} =>
          /\ dq.result.sql # <<>>
          /\ dq.result.sql[1] = LineComment
          /\ dq.result.sql[2] = W("Failed:")
          /\ dq.result.chart_png_path = ""
          /\ dq.result.insights # <<>>
    /\ dq.failed \in {"chart", "insights"} =>
          /\ dq.executed # <<>>
          /\ dq.result.sql = dq.executed[Len(dq.executed)].sql
          /\ (dq.failed = "chart" => dq.result.chart_png_path = "")
          /\ dq.result.insights # <<>>

C30_RejectedBeforeSideEffects ==
    [][ (ndirect' = ndirect + 1 /\ ImageCount(log'[1].params) > 1) =>
            /\ ~log'[1].res.ok
            /\ log'[1].calls.pres = 0
            /\ ~log'[1].stages.pres
            /\ nextId' = nextId
            /\ idem' = idem ]_vars

\* ---------------------------------------------------------------- C31

\* the backend lets everything but the deletion of the blank slide succeed
DeleteAloneFails(p, b) ==
    /\ ~IdemHit(p, idem)
    /\ b.creds = "ok" /\ b.create = "ok"
    /\ b.delete # "ok"
    /\ ImageResolves(p, b)
    /\ b.slide = "ok"

\* C31: deleting the auto-created blank slide is best-effort: whatever way the
\* deletion fails (HttpError after the retries, or any other exception such as
\* the IndexError of a presentation that reports no slides), slides.create
\* goes on, builds the content slide and returns its result.
C31_DeleteIsBestEffort ==
    [][ \A p \in DirectParams, b \in Backends :
            (DirectCall(p, b) /\ DeleteAloneFails(p, b)) =>
                /\ log'[1].res.ok
                /\ log'[1].stages.slide
                /\ log'[1].res.presentation_id = nextId ]_vars

\* ---------------------------------------------------------------- C32

\* the summarizer answered in the legacy single-section form
LegacyForm == s # <<>> /\ ~s[1].has_list

\* C32: when the summarizer result has no list under "sections", orchestrate
\* works on exactly one section, built from the top-level title ("Untitled"
\* when it is empty), subtitle, bullets, script and image_prompt; exactly one
\* slide is planned whatever slide_count was requested, and a call that
\* returns has issued one slides.create and reports created_slides = 1.
C32_LegacyIsOneSection ==
    LegacyForm =>
        /\ Len(Sections) = 1
        /\ Sections[1].title = (IF s[1].title = "" THEN "Untitled" ELSE s[1].title)
        /\ Sections[1].subtitle = s[1].subtitle
        /\ Sections[1].bullets = s[1].bullets
        /\ Sections[1].script = s[1].script
        /\ Sections[1].image_prompt = s[1].image_prompt
        /\ ActualSlides = 1
        /\ idx = 1
        /\ Len(SlideCalls) <= 1
        /\ pc = "done" => /\ result.created_slides = 1
                          /\ Len(SlideCalls) = 1

\* a legacy answer with content, more than one slide requested, one slide built
C32_Witness ==
    /\ pc = "done"
    /\ LegacyForm
    /\ run.slide_count > 1
    /\ s[1].title = "Acme"
    /\ s[1].bullets # <<>>
    /\ result.created_slides = 1
    /\ Len(SlideCalls) = 1

\* ---------------------------------------------------------------- C33

\* C33: in the composite slide operation the slides.create call that creates
\* the deck (the first of the loop) carries the base client key, and a
\* successful one leaves its entry in the idempotency store under that key;
\* only the append calls (index > 1) carry the per-slide key
\* "<client_key>#s<index>".
C33_DeckKeyedOnBaseKey ==
    \A j \in 1 .. Len(log) :
        IsSlideCall(log[j]) =>
            /\ log[j].idx = 1 =>
                  /\ log[j].params.client_request_id = run.req_id
                  /\ log[j].res.ok => run.req_id \in DOMAIN idem
            /\ log[j].idx > 1 =>
                  log[j].params.client_request_id = PerSlideId(run.req_id, log[j].idx)

\* ---------------------------------------------------------------- C34

\* the names tests/test_smoke.py looks up in TOOLS
RequiredTools == {"llm.summarize", "image.generate", "slides.create"}

\* the k-th response answers a request that names one of the required tools
NamesRequiredTool(k) ==
    /\ NonBlankRead[k].kind = "object"
    /\ NonBlankRead[k].req.has_method
    /\ NonBlankRead[k].req.method \in { JStr(n) : n \in RequiredTools }

\* C34: once the server module is imported the registry contains
\* llm.summarize, image.generate and slides.create, and a request naming one
\* of them is dispatched to its handler, never answered with -32601.
C34_RegistryHasTools ==
    srv.pc # "off" =>
        /\ RequiredTools \subseteq srv.tools
        /\ \A k \in 1 .. Len(srv.out) :
              NamesRequiredTool(k) =>
                  ~("error" \in srv.out[k].members /\ srv.out[k].error.code = -32601)

\* ---------------------------------------------------------------- C35

\* C35: serve_stdio does not terminate before the end of input: the handling
\* of every non-blank line, whatever JSON it holds (an object, or an array, a
\* number, a string), writes exactly one response line and leaves the loop at
\* its next readline; the process exits only on reading the end of input.
C35_ServesUntilEOF ==
    [][ /\ (LineHandled /\ IsNonBlank(srv.cur)) =>
              /\ Len(srv'.out) = Len(srv.out) + 1
              /\ srv'.pc = "read"
        /\ (srv.pc # "exited" /\ srv'.pc = "exited") => srv'.eof ]_vars

\* ---------------------------------------------------------------- C36

\* C36: two slides.create calls carrying the same client_request_id, running
\* in separate server processes over the same idempotency file, create at
\* most one presentation between them and return the same presentation_id,
\* slide_id and url.
C36_SameKeyOnePresentation ==
    \A v \in Procs, w \in Procs :
        ( /\ v # w
          /\ workers[v].pc = "done"
          /\ workers[w].pc = "done"
          /\ workers[v].p.client_request_id = workers[w].p.client_request_id )
        => /\ nextId <= 2
           /\ workers[v].res.presentation_id = workers[w].res.presentation_id
           /\ workers[v].res.slide_id = workers[w].res.slide_id
           /\ workers[v].res.url = workers[w].res.url

\* ---------------------------------------------------------------- C37

\* the answer of the last slides.create did not arrive in time although the
\* server completed the call (rpc_client.py line 86 against slides.py 203-214)
LostAnswer ==
    /\ log # <<>>
    /\ IsSlideCall(Last(log))
    /\ Last(log).out = "timeout"
    /\ Last(log).res.ok

\* orchestrate returns or raises, and how it ended is remembered
FinishNoted ==
    /\ pc \in {"done", "raised"}
    /\ batch.pc # "running"
    /\ Returned
    /\ hist' = [sections |-> Sections,
                failed_at |-> IF pc = "raised" THEN idx ELSE 0,
                lost |-> pc = "raised" /\ LostAnswer]
    /\ UNCHANGED <<idem, llmCache, imgCache, now, nextId, nextUuid, nruns,
                   batch, ndirect, workers, srv, bk, llm, dq, cli, ig>>

\* orchestrate called without the cache, and called again after it ended
NextRetry ==
    \/ \E c \in ClientIds, rep \in Reports, n \in SlideCounts, ttl \in TTLs :
          Start(c, rep, n, FALSE, ttl)
    \/ \E c \in ClientIds : Again(c, FALSE)
    \/ \E out \in SummarizerOutputs : SummarizeCall(out)
    \/ \E kind \in {"error", "timeout"} : SummarizeFail(kind)
    \/ ImageSkip
    \/ \E g \in ImageResults : ImageCall(g)
    \/ \E kind \in {"error", "timeout"} : ImageFail(kind)
    \/ \E b \in Backends, timeout \in BOOLEAN : SlideCall(b, timeout)
    \/ FinishNoted

SpecRetry == Init /\ [][NextRetry]_vars

\* the store holds an entry for every slide before slide i and none for slide i
RecordedBefore(i) ==
    /\ \A j \in 1 .. i - 1 : PerSlideId(run.req_id, j) \in DOMAIN idem
    /\ PerSlideId(run.req_id, i) \notin DOMAIN idem

\* the slides.create calls of the running call reuse every slide before slide i
\* and go to the backend from slide i on
ReusedBefore(i) ==
    \A k \in 1 .. Len(log) :
        IsSlideCall(log[k]) =>
            /\ log[k].idx < i => /\ log[k].res.reused_existing
                                 /\ log[k].calls = ZeroCalls
            /\ log[k].idx >= i => /\ ~log[k].res.reused_existing
                                  /\ log[k].calls.cred = 1

\* the running call repeats, with the same client_request_id and the same
\* sections, a first call that failed at a slide after the first
RetriesFailedCall ==
    /\ nruns = 2
    /\ prev.status = "raised"
    /\ hist.failed_at > 1
    /\ prev.run.req_id = run.req_id
    /\ s # <<>>
    /\ Sections = hist.sections

\* C37 (as stated): an orchestrate request (client_request_id not used before)
\* that fails at slide i > 1 leaves entries for slides 1..i-1 in the store and
\* none for slide i, and a later orchestrate with the same client_request_id
\* and the same sections gets reused_existing for slides 1..i-1 and goes to
\* the backend only from slide i onward.
C37_PerSlideEntries ==
    /\ (nruns = 1 /\ pc = "raised" /\ idx > 1) => RecordedBefore(idx)
    /\ RetriesFailedCall => ReusedBefore(hist.failed_at)

\* C37 (amended): the same, except when the failure is the timeout of a
\* slides.create call that the server completed: the entry of slide i is then
\* in the store.
C37_PerSlideEntriesUnlessLost ==
    /\ (nruns = 1 /\ pc = "raised" /\ idx > 1) =>
          IF LostAnswer
          THEN \A j \in 1 .. idx : PerSlideId(run.req_id, j) \in DOMAIN idem
          ELSE RecordedBefore(idx)
    /\ (RetriesFailedCall /\ ~hist.lost) => ReusedBefore(hist.failed_at)

\* the retry of a call that failed at slide 2 has reused slide 1 and built
\* slide 2 in the backend
C37_Witness ==
    /\ RetriesFailedCall
    /\ ~hist.lost
    /\ hist.failed_at = 2
    /\ pc = "done"
    /\ Len(SlideCalls) = 2
    /\ SlideCalls[1].res.reused_existing
    /\ ~SlideCalls[2].res.reused_existing
    /\ SlideCalls[2].calls.pres = 1

\* ------------------------------------------------------- MCPClient.call

\* lines 65-71: the request is written and the deadline set
ClientCall(rid) ==
    /\ pc = "idle"
    /\ cli.pc = "off"
    /\ cli' = [NoClient EXCEPT !.pc = "top", !.rid = rid]
    /\ UNCHANGED <<progVars, bk, llm, dq, hist, ig>>

\* lines 52-55: the reader thread queues a line of the server's stdout
ReaderPut(line) ==
    /\ cli.pc \in {"top", "get"}
    /\ cli.nput < MaxQueued
    /\ cli' = [cli EXCEPT !.rx = Append(@, line), !.nput = @ + 1]
    /\ UNCHANGED <<progVars, bk, llm, dq, hist, ig>>

\* the clock passes the deadline
DeadlinePasses ==
    /\ cli.pc \in {"top", "get"}
    /\ ~cli.expired
    /\ cli' = [cli EXCEPT !.expired = TRUE]
    /\ UNCHANGED <<progVars, bk, llm, dq, hist, ig>>

\* lines 72, 86: the loop condition; past the deadline TimeoutError is raised
LoopTop ==
    /\ cli.pc = "top"
    /\ cli' = IF cli.expired
              THEN [cli EXCEPT !.pc = "ended", !.outcome = "TimeoutError"]
              ELSE [cli EXCEPT !.pc = "get"]
    /\ UNCHANGED <<progVars, bk, llm, dq, hist, ig>>

\* lines 73-76: self._rx.get(timeout=0.5) finds the queue empty
GetEmpty ==
    /\ cli.pc = "get"
    /\ cli.rx = <<>>
    /\ cli' = [cli EXCEPT !.pc = "top"]
    /\ UNCHANGED <<progVars, bk, llm, dq, hist, ig>>

\* lines 73-85: a line is taken from the queue and handled
GetLine ==
    LET line == Head(cli.rx)
        h == HandleLine(line, cli.rid)
    IN  /\ cli.pc = "get"
        /\ cli.rx # <<>>
        /\ cli' = [cli EXCEPT !.rx = Tail(@), !.taken = Append(@, line),
                              !.pc = IF h = "skip" THEN "top" ELSE "ended",
                              !.outcome = IF h = "skip" THEN "" ELSE h]
        /\ UNCHANGED <<progVars, bk, llm, dq, hist, ig>>

NextClient ==
    \/ \E rid \in CallIds : ClientCall(rid)
    \/ \E line \in StdoutLines : ReaderPut(line)
    \/ DeadlinePasses
    \/ LoopTop
    \/ GetEmpty
    \/ GetLine

SpecClient == Init /\ [][NextClient]_vars

\* ---------------------------------------------------------------- C38

\* the line is a response to the call: a JSON object whose id is the id sent
Matches(line, rid) == line.kind = "object" /\ line.id = <<"str", rid>>

\* C38: MCPClient.call returns a result or raises ToolError only on a line
\* whose id equals the id it sent; every other line the reader queued (not
\* JSON, or without that id, the id = null parse-error responses included) is
\* discarded without ending the call; a call that ends without having taken a
\* matching line ends by raising TimeoutError.
C38_OnlyMatchingLineEnds ==
    /\ cli.outcome \in {"result", "ToolError"} =>
          /\ Matches(Last(cli.taken), cli.rid)
          /\ (cli.outcome = "ToolError") <=> Last(cli.taken).error
    /\ \A k \in 1 .. Len(cli.taken) :
          ~Matches(cli.taken[k], cli.rid) =>
              \/ k < Len(cli.taken)
              \/ cli.pc \in {"top", "get"}
              \/ cli.outcome = "TimeoutError"
    /\ ( /\ cli.pc = "ended"
          /\ \A k \in 1 .. Len(cli.taken) : ~Matches(cli.taken[k], cli.rid) )
        => cli.outcome = "TimeoutError"

\* ------------------------------------------------------- image.generate

\* image_generate_tool(params) at clock second `now`
\*   gen:    _backoff_retry(_gen) returns the image ("ok") or raises
\*   link:   p.return_drive_link
\*   upload: upload_image_to_drive returns ("ok") or raises
ImageGenerate(prompt, gen, link, upload) ==
    LET k == ig.ncalls + 1
        path == LocalPath(now)
        saved == [f \in DOMAIN ig.files \cup {path} |->
                     IF f = path THEN k ELSE ig.files[f]]
        out == [local_path |-> path, image |-> k, prompt |-> prompt,
                drive_file_id |-> IF link THEN "file-" \o ToString(k) ELSE ""]
    IN  /\ pc = "idle"
        /\ ig.ncalls < MaxImageCalls
        /\ ig' = IF gen # "ok"
                 THEN [ig EXCEPT !.ncalls = k]
                 ELSE IF link /\ upload # "ok"
                 THEN [ig EXCEPT !.ncalls = k, !.files = saved]
                 ELSE [ncalls |-> k, files |-> saved, returned |-> Append(ig.returned, out)]
        /\ UNCHANGED <<progVars, bk, llm, dq, hist, cli>>

\* int(time.time()) moves on to the next second between two calls
SecondPasses ==
    /\ pc = "idle"
    /\ now < MaxClock
    /\ now' = now + 1
    /\ UNCHANGED <<idem, llmCache, imgCache, nextId, nextUuid, nruns, prev,
                   pc, run, s, idx, img, created, log, calls, result, err, batch,
                   ndirect, workers, srv, bk, llm, dq, hist, cli, ig>>

NextImagen ==
    \/ \E prompt \in {"dashboard", "chart"}, gen \in {"ok", "fail"},
          link \in BOOLEAN, upload \in {"ok", "fail"} :
            ImageGenerate(prompt, gen, link, upload)
    \/ SecondPasses

SpecImagen == Init /\ [][NextImagen]_vars

\* ---------------------------------------------------------------- C39

\* C39: distinct successful image.generate calls return distinct local_path
\* values, and the file a call returned still holds that call's image after
\* any later call, two calls within the same clock second included.
C39_DistinctPaths ==
    /\ \A i \in 1 .. Len(ig.returned), j \in 1 .. Len(ig.returned) :
          i # j => ig.returned[i].local_path # ig.returned[j].local_path
    /\ \A i \in 1 .. Len(ig.returned) :
          ig.files[ig.returned[i].local_path] = ig.returned[i].image

====
